---- MODULE Spec2Model ----
(***************************************************************************)
(* A model of the OFAC SDN extraction scripts of crypto-sanctions-list.    *)
(*                                                                         *)
(* Spec   : scripts/update-sanctions.js, lines 1-169 (overwrite policy).   *)
(* SpecB  : scripts/update-sanctions.js, lines 170-289 (second revision,   *)
(*          attribute idType, no try block per entity).                    *)
(* SpecP0 : unnamed/part_000 (known addresses, two concurrent fetches      *)
(*          whose failures are absorbed).                                  *)
(* SpecP1 : unnamed/part_001 (accumulation into `entries`).                *)
(* SpecP2 : unnamed/part_002, lines 159-299 (no test of the address).      *)
(* FairSpec : Spec with a started run going on until it exits.             *)
(* SpecN  : Spec on the documents whose entities differ in their names.    *)
(*                                                                         *)
(* A run is one process: fetch the XML, parse it, walk the entities and    *)
(* their identifiers, write the snapshot file, exit.  The snapshot file is *)
(* the only state that survives a run.                                     *)
(***************************************************************************)
EXTENDS Integers, Sequences, FiniteSets, TLC

(***************************************************************************)
(* Bounds of the model.                                                    *)
(***************************************************************************)
MaxEntities == 2
MaxRuns == 2

(***************************************************************************)
(* JavaScript strings.  A string is a TLA+ string; the operators below     *)
(* compute what String.prototype.{toLowerCase,trim,includes} and           *)
(* Array.prototype.join compute.                                           *)
(***************************************************************************)
UpperChars == "ABCDEFGHIJKLMNOPQRSTUVWXYZ"
LowerChars == "abcdefghijklmnopqrstuvwxyz"
DigitChars == "0123456789"

CharAt(s, k) == SubSeq(s, k, k)

LowerChar(c) ==
    IF \E k \in 1..Len(UpperChars) : CharAt(UpperChars, k) = c
    THEN CharAt(LowerChars, CHOOSE k \in 1..Len(UpperChars) : CharAt(UpperChars, k) = c)
    ELSE c

RECURSIVE ToLowerCase(_)
ToLowerCase(s) ==
    IF s = "" THEN ""
    ELSE LowerChar(CharAt(s, 1)) \o ToLowerCase(SubSeq(s, 2, Len(s)))

IsSpace(c) == c \in {" ", "\t", "\n"}

RECURSIVE TrimStart(_)
TrimStart(s) ==
    IF s = "" THEN ""
    ELSE IF IsSpace(CharAt(s, 1)) THEN TrimStart(SubSeq(s, 2, Len(s))) ELSE s

RECURSIVE TrimEnd(_)
TrimEnd(s) ==
    IF s = "" THEN ""
    ELSE IF IsSpace(CharAt(s, Len(s))) THEN TrimEnd(SubSeq(s, 1, Len(s) - 1)) ELSE s

Trim(s) == TrimEnd(TrimStart(s))

Includes(s, sub) ==
    \E k \in 1..(Len(s) - Len(sub) + 1) : SubSeq(s, k, k + Len(sub) - 1) = sub

IsDigits(s) ==
    /\ s # ""
    /\ \A k \in 1..Len(s) : \E d \in 1..Len(DigitChars) : CharAt(s, k) = CharAt(DigitChars, d)

RECURSIVE Join(_, _)
Join(strs, sep) ==
    IF Len(strs) = 0 THEN ""
    ELSE IF Len(strs) = 1 THEN strs[1]
    ELSE strs[1] \o sep \o Join(Tail(strs), sep)

(***************************************************************************)
(* JavaScript values of the parse result: undefined, a string or a number. *)
(* A number keeps its decimal text in v.                                   *)
(***************************************************************************)
Undefined == [t |-> "undefined", v |-> ""]
Str(s) == [t |-> "string", v |-> s]
Num(s) == [t |-> "number", v |-> s]

\* JavaScript truthiness: undefined, "" and 0 are falsy.
Truthy(x) ==
    \/ x.t = "string" /\ x.v # ""
    \/ x.t = "number" /\ x.v # "0"

\* a || b
Or(a, b) == IF Truthy(a) THEN a ELSE b

(***************************************************************************)
(* The XML document.  A text node is absent or holds its raw text.         *)
(***************************************************************************)
Absent == [present |-> FALSE, text |-> ""]
Text(s) == [present |-> TRUE, text |-> s]

DigitalCurrency == "Digital Currency"
LabelETH == "Digital Currency Address - ETH"
LabelXBT == "Digital Currency Address - XBT"
LabelLower == "digital currency address - eth"
LabelUpper == "DIGITAL CURRENCY ADDRESS"
LabelPassport == "Passport"

RawId(type, number) == [idType |-> type, idNumber |-> number]

IdPassport == RawId(Text(LabelPassport), Text("P123456789X"))
IdEth == RawId(Text(LabelETH), Text(" 0xABC1234567 "))
IdXbtSame == RawId(Text(LabelXBT), Text("0xabc1234567"))
IdShort == RawId(Text(LabelETH), Text("  0xAB12  "))
IdXbt == RawId(Text(LabelXBT), Text("1A2b3C4d5E6f"))
IdNumeric == RawId(Text(LabelXBT), Text("12345678901"))
IdEth2 == RawId(Text(LabelETH), Text("0xDEF7654321"))
IdLowerLabel == RawId(Text(LabelLower), Text("0xFFF0000000AA"))
IdNoNumber == RawId(Text(LabelXBT), Absent)
IdUpperLabel == RawId(Text(LabelUpper), Text("0xEEE0000000CC"))
IdNumType == RawId(Text("12345"), Text("0xBAD0000000BB"))
IdXbt2 == RawId(Text(LabelXBT), Text("bc1QXYZ9876543"))
IdNoType == RawId(Absent, Text("0xCCC0000000DD"))
IdEth3 == RawId(Text(LabelETH), Text("0x9990000000EE"))
IdEmpty == RawId(Text(LabelXBT), Text("  "))
IdShortNumeric == RawId(Text(LabelETH), Text("12345"))
IdEth4 == RawId(Text(LabelETH), Text("0x1110000000FF"))

RawEntity(first, last, programs, idList) ==
    [firstName |-> first, lastName |-> last, programs |-> programs, ids |-> idList]

\* The shapes of sdnEntry elements the documents are built from.
EntityShapes ==
    << RawEntity(Text("Ivan"), Text("Petrov"), <<Text("SDGT"), Text("CYBER2")>>,
                <<IdPassport, IdEth>>),
      RawEntity(Absent, Text("Lazarus Group"), <<Text("DPRK3")>>,
                <<IdXbtSame, IdShort>>),
      RawEntity(Absent, Absent, <<>>,
                <<IdXbt, IdNumeric, IdEth2>>),
      RawEntity(Text("Anna"), Absent, <<Text("SDGT")>>,
                <<IdLowerLabel, IdNoNumber, IdUpperLabel>>),
      RawEntity(Absent, Text("Hydra Market"), <<Text("CYBER2")>>,
                <<IdNoType, IdNumType, IdXbt2>>),
      RawEntity(Absent, Text("777"), <<Text("SDGT")>>,
                <<IdEth3>>),
      RawEntity(Text("Nobody"), Text("Known"), <<>>, <<>>),
      RawEntity(Text("Garantex"), Text("Europe OU"), <<Text("RUSSIA-EO14024")>>,
                <<IdEmpty, IdShortNumeric, IdEth4>>),
      RawEntity(Text("Satoshi"), Absent, <<Text("SDGT")>>,
                <<IdEth3>>),
      RawEntity(Absent, Text("0"), <<>>,
                <<IdEth4>>) >>

SeqsUpTo(S, n) == UNION { [1..k -> S] : k \in 0..n }

\* A document the source can serve: not well-formed XML, a root without
\* sdnList, or an sdnList of entities (of none: sdnList without sdnEntry).
\* entries names the shape of each sdnEntry element, in document order.
MalformedXml == [wellFormed |-> FALSE, hasSdnList |-> FALSE, entries |-> <<>>]
NoSdnList == [wellFormed |-> TRUE, hasSdnList |-> FALSE, entries |-> <<>>]
SdnList(shapes) == [wellFormed |-> TRUE, hasSdnList |-> TRUE, entries |-> shapes]

\* the documents served to the script are built from these shapes
ShapesA == 1..8

Documents ==
    {MalformedXml, NoSdnList} \cup { SdnList(s) : s \in SeqsUpTo(ShapesA, MaxEntities) }

\* the documents of the runs that look at the display name: an entity with
\* lastName only, one without names, one with firstName only, one whose
\* lastName is 0
ShapesN == {2, 3, 9, 10}

DocumentsN ==
    {MalformedXml, NoSdnList} \cup { SdnList(s) : s \in SeqsUpTo(ShapesN, MaxEntities) }

\* The k-th sdnEntry element of a document; its uid is unique within the
\* document (its position).
RawEntry(doc, k) == [uid |-> k, e |-> EntityShapes[doc.entries[k]]]

(***************************************************************************)
(* The parser of the script: fast-xml-parser with trimValues and           *)
(* parseTagValue on, and sdnEntry, id and program always arrays.           *)
(***************************************************************************)
\* trimValues: the text of a tag is trimmed; parseTagValue: text that reads
\* as a decimal number becomes a number.
ParseTagValue(raw) ==
    IF ~raw.present THEN Undefined
    ELSE LET s == Trim(raw.text)
         IN IF IsDigits(s) THEN Num(s) ELSE Str(s)

\* isArray without 'program': one program child is a scalar
IsArrayWithoutProgram(name) == name \in {"sdnEntry", "id", "aka"}

\* isArray without 'sdnEntry': one sdnEntry child is an object
IsArrayWithoutSdnEntry(name) == name \in {"id", "program", "aka"}

\* isArray: (name) => ['sdnEntry', 'id', 'program', 'aka'].includes(name)
IsArray(name) == name \in {"sdnEntry", "id", "program", "aka"}

ParseId(rawId) ==
    [idType |-> ParseTagValue(rawId.idType), idNumber |-> ParseTagValue(rawId.idNumber)]

ParseEntry(r) ==
    [uid |-> r.uid,
     firstName |-> ParseTagValue(r.e.firstName),
     lastName |-> ParseTagValue(r.e.lastName),
     program |-> [k \in 1..Len(r.e.programs) |-> ParseTagValue(r.e.programs[k])],
     \* several program children are an array; one is an array under isArray
     programIsArray |-> Len(r.e.programs) >= 2 \/ IsArray("program"),
     \* likewise the id children of idList
     idIsArray |-> Len(r.e.ids) # 1 \/ IsArray("id"),
     id |-> [k \in 1..Len(r.e.ids) |-> ParseId(r.e.ids[k])]]

\* parser.parse(xmlContent), and result?.sdnList?.sdnEntry || []: a root
\* without sdnList, or an sdnList without sdnEntry, gives no entries.
SdnEntries(doc) == IF doc.hasSdnList THEN doc.entries ELSE <<>>

\* for (const entry of sdnEntries): several sdnEntry children are an array,
\* one is an array under isArray; an object is not iterable
SdnEntriesIterable(doc) == Len(SdnEntries(doc)) # 1 \/ IsArray("sdnEntry")

(***************************************************************************)
(* The extraction of one entity (the body of the for loop).                *)
(***************************************************************************)
MinAddressLength == 10

\* entry.firstName ? `${entry.firstName} ${entry.lastName || ''}`
\*                 : (entry.lastName || 'Unknown Entity')
EntityName(entry) ==
    IF Truthy(entry.firstName)
    THEN Str(entry.firstName.v \o " " \o Or(entry.lastName, Str("")).v)
    ELSE Or(entry.lastName, Str("Unknown Entity"))

\* (entry.programList?.program || []).join(', '): a truthy scalar has no join
ProgramRaises(entry) ==
    Len(entry.program) = 1 /\ ~entry.programIsArray /\ Truthy(entry.program[1])

\* (entry.programList?.program || []).join(', ')
ProgramString(entry) == Join([k \in 1..Len(entry.program) |-> entry.program[k].v], ", ")

\* IsDigitalCurrency without the substring test: every string label passes
IsDigitalCurrencyUnfiltered(id) ==
    CASE id.idType.t = "undefined" -> "no"
      [] id.idType.t = "number" -> "raise"
      [] OTHER -> "yes"

\* id?.idType?.includes('Digital Currency'): "raise" when idType is a number
\* (a number has no includes), "no" when absent or without the substring.
IsDigitalCurrency(id) ==
    CASE id.idType.t = "undefined" -> "no"
      [] id.idType.t = "number" -> "raise"
      [] OTHER -> IF Includes(id.idType.v, DigitalCurrency) THEN "yes" ELSE "no"

\* AddressOf without toLowerCase
AddressOfAsGiven(id) == Or(id.idNumber, Str("")).v

\* (id.idNumber || '').toLowerCase(): a number has no toLowerCase.
AddressRaises(id) == Or(id.idNumber, Str("")).t = "number"
AddressOf(id) == ToLowerCase(Or(id.idNumber, Str("")).v)

\* !address || address.length < 10
InvalidAddress(address) == address = "" \/ Len(address) < MinAddressLength

\* AddressRecord with the label of the first identifier of the entity as type
AddressRecordTypeOfFirstId(entry, id) ==
    [entity |-> Trim(EntityName(entry).v),
     program |-> ProgramString(entry),
     type |-> entry.id[1].idType.v,
     uid |-> entry.uid]

\* addresses[address] = {entity, program, type, uid}
AddressRecord(entry, id) ==
    [entity |-> Trim(EntityName(entry).v),
     program |-> ProgramString(entry),
     type |-> id.idType.v,
     uid |-> entry.uid]

\* Put that keeps the record a key already has
PutIfAbsent(map, key, rec) ==
    [k \in (DOMAIN map) \cup {key} |-> IF k \in DOMAIN map THEN map[k] ELSE rec]

\* addresses[address] = record
Put(map, key, rec) == [k \in (DOMAIN map) \cup {key} |-> IF k = key THEN rec ELSE map[k]]

\* What one identifier does: "skip" (not a candidate), "raiseType" (idType is
\* not a string), "raiseNumber" (idNumber is not a string), "invalid" (empty
\* or short), "raiseName" (entityName is not a string), "raiseProgram" (the
\* program is not an array) or "accept"; "raiseIds" when the ids of the
\* entity are not iterable (for (const id of ids) raises at once).
IdOutcome(entry, id) ==
    LET dc == IsDigitalCurrency(id)
    IN IF ~entry.idIsArray THEN "raiseIds"
       ELSE IF dc = "no" THEN "skip"
       ELSE IF dc = "raise" THEN "raiseType"
       ELSE IF AddressRaises(id) THEN "raiseNumber"
       ELSE IF InvalidAddress(AddressOf(id)) THEN "invalid"
       ELSE IF EntityName(entry).t = "number" THEN "raiseName"
       ELSE IF ProgramRaises(entry) THEN "raiseProgram"
       ELSE "accept"

Raises(outcome) ==
    outcome \in {"raiseIds", "raiseType", "raiseNumber", "raiseName", "raiseProgram"}
\* the identifier was counted in totalDigitalCurrencyIds
Counted(outcome) ==
    outcome \in {"raiseNumber", "invalid", "raiseName", "raiseProgram", "accept"}
\* the identifier was counted in foundAddresses
Found(outcome) == outcome \in {"raiseName", "raiseProgram", "accept"}

(***************************************************************************)
(* The parse and the extraction are functions of the entity alone (but for *)
(* the uid, which is carried through): they are computed once per shape.   *)
(***************************************************************************)
ParsedShapes ==
    [s \in 1..Len(EntityShapes) |-> ParseEntry([uid |-> 0, e |-> EntityShapes[s]])]

Extracted ==
    [s \in 1..Len(EntityShapes) |->
        [n \in 1..Len(ParsedShapes[s].id) |->
            [outcome |-> IdOutcome(ParsedShapes[s], ParsedShapes[s].id[n]),
             address |-> AddressOf(ParsedShapes[s].id[n]),
             record |-> AddressRecord(ParsedShapes[s], ParsedShapes[s].id[n])]]]

(***************************************************************************)
(* The snapshot file.                                                      *)
(***************************************************************************)
NoFile == [kind |-> "absent", lastUpdated |-> 0, totalAddresses |-> 0, addresses |-> <<>>]
\* what a failed writeFile can leave behind: the file was truncated on open
PartialFile == [kind |-> "partial", lastUpdated |-> 0, totalAddresses |-> 0, addresses |-> <<>>]
\* sanctionsData: metadata (lastUpdated, totalAddresses) and addresses
SanctionsData(now, addrs) ==
    [kind |-> "snapshot", lastUpdated |-> now,
     totalAddresses |-> Cardinality(DOMAIN addrs), addresses |-> addrs]

(***************************************************************************)
(* The state.                                                              *)
(***************************************************************************)
VARIABLES
    pc,                       \* where the run is
    run,                      \* the number of the run (its clock)
    xml,                      \* the document the source serves in this run
    sdnEntries,               \* the length of the parse result's entity list
    entryIdx,                 \* the entity the loop is at (0 before the first)
    idIdx,                    \* the identifier the inner loop has done
    addresses,
    processedEntries,
    totalDigitalCurrencyIds,
    foundAddresses,
    file,                     \* the content of OUTPUT_FILE
    exitStatus,               \* -1 while the process runs
    writes,                   \* history: writeFile calls of this run
    fileAtStart,              \* history: the file when the run started
    raised,                   \* history: <<entity, identifier>> where processing raised
    fatal,                    \* history: what failed ("none" if nothing)
    fetches                   \* part_000: the two fetches of Promise.all

vars == <<pc, run, xml, sdnEntries, entryIdx, idIdx, addresses, processedEntries,
          totalDigitalCurrencyIds, foundAddresses, file, exitStatus, writes,
          fileAtStart, raised, fatal, fetches>>

\* sdnEntries[k - 1]: the k-th entity of the parse result of this run
Entry(k) == [ParsedShapes[xml.entries[k]] EXCEPT !.uid = k]

\* what the loop body does with the n-th identifier of the k-th entity
Step(k, n) == Extracted[xml.entries[k]][n]

\* the fetches of part_000 before they are started
NoFetches == [press |-> [state |-> "idle", found |-> 0, result |-> <<>>],
              sdn |-> [state |-> "idle", found |-> 0, result |-> <<>>]]

loopVars == <<sdnEntries, entryIdx, idIdx, addresses, processedEntries,
              totalDigitalCurrencyIds, foundAddresses, raised>>

Init ==
    /\ pc = "fetch"
    /\ run = 1
    /\ xml = NoSdnList
    /\ sdnEntries = 0
    /\ entryIdx = 0
    /\ idIdx = 0
    /\ addresses = <<>>
    /\ processedEntries = 0
    /\ totalDigitalCurrencyIds = 0
    /\ foundAddresses = 0
    /\ file = NoFile
    /\ exitStatus = -1
    /\ writes = 0
    /\ fileAtStart = NoFile
    /\ raised = {}
    /\ fatal = "none"
    /\ fetches = NoFetches

\* axios.get(SDN_LIST_URL): the response, or a rejection (network, status).
Fetch ==
    /\ pc = "fetch"
    /\ \/ \E doc \in Documents :
            /\ xml' = doc
            /\ pc' = "parse"
            /\ fatal' = fatal
       \/ /\ pc' = "fatal"
          /\ fatal' = "fetch"
          /\ xml' = xml
    /\ UNCHANGED <<fetches, run, file, exitStatus, writes, fileAtStart>>
    /\ UNCHANGED loopVars

\* Parse with the parse error swallowed: the run goes on with no entities.
ParseSwallowed ==
    /\ pc = "parse"
    /\ sdnEntries' = Len(SdnEntries(xml))
    /\ pc' = "loop"
    /\ fatal' = IF xml.wellFormed THEN fatal ELSE "parse"
    /\ UNCHANGED <<fetches, run, xml, entryIdx, idIdx, addresses, processedEntries,
                   totalDigitalCurrencyIds, foundAddresses, file, exitStatus,
                   writes, fileAtStart, raised>>

\* Parse that throws when the parse result has no sdnList
ParseRequiringSdnList ==
    /\ pc = "parse"
    /\ IF xml.wellFormed /\ xml.hasSdnList /\ SdnEntriesIterable(xml)
       THEN /\ sdnEntries' = Len(SdnEntries(xml))
            /\ pc' = "loop"
            /\ fatal' = fatal
       ELSE /\ sdnEntries' = sdnEntries
            /\ pc' = "fatal"
            /\ fatal' = "parse"
    /\ UNCHANGED <<fetches, run, xml, entryIdx, idIdx, addresses, processedEntries,
                   totalDigitalCurrencyIds, foundAddresses, file, exitStatus,
                   writes, fileAtStart, raised>>

\* parser.parse(xmlContent), sdnEntries, the counters' initial values and
\* the start of for (const entry of sdnEntries).
Parse ==
    /\ pc = "parse"
    /\ IF xml.wellFormed /\ SdnEntriesIterable(xml)
       THEN /\ sdnEntries' = Len(SdnEntries(xml))
            /\ pc' = "loop"
            /\ fatal' = fatal
       ELSE /\ sdnEntries' = sdnEntries
            /\ pc' = "fatal"
            /\ fatal' = "parse"
    /\ UNCHANGED <<fetches, run, xml, entryIdx, idIdx, addresses, processedEntries,
                   totalDigitalCurrencyIds, foundAddresses, file, exitStatus,
                   writes, fileAtStart, raised>>

\* for (const entry of sdnEntries) { processedEntries++; try { ids, entityName
NextEntry ==
    /\ pc = "loop"
    /\ entryIdx < sdnEntries
    /\ entryIdx' = entryIdx + 1
    /\ processedEntries' = processedEntries + 1
    /\ idIdx' = 0
    /\ pc' = "ids"
    /\ UNCHANGED <<fetches, run, xml, sdnEntries, addresses, totalDigitalCurrencyIds,
                   foundAddresses, file, exitStatus, writes, fileAtStart, raised, fatal>>

\* ProcessId without the try block around the entity: a raise ends the loop.
ProcessIdUncaught ==
    /\ pc = "ids"
    /\ idIdx < Len(Extracted[xml.entries[entryIdx]])
    /\ LET step == Step(entryIdx, idIdx + 1)
           outcome == step.outcome
       IN /\ idIdx' = idIdx + 1
          /\ totalDigitalCurrencyIds' =
                IF Counted(outcome) THEN totalDigitalCurrencyIds + 1
                ELSE totalDigitalCurrencyIds
          /\ foundAddresses' =
                IF Found(outcome) THEN foundAddresses + 1 ELSE foundAddresses
          /\ addresses' =
                IF outcome = "accept"
                THEN Put(addresses, step.address, [step.record EXCEPT !.uid = entryIdx])
                ELSE addresses
          /\ raised' = IF Raises(outcome) THEN raised \cup {<<entryIdx, idIdx + 1>>} ELSE raised
          /\ pc' = IF Raises(outcome) THEN "mkdir" ELSE "ids"
    /\ UNCHANGED <<fetches, run, xml, sdnEntries, entryIdx, processedEntries, file,
                   exitStatus, writes, fileAtStart, fatal>>

\* ProcessId with the try block around the identifier, not the entity: a
\* raise goes on with the next identifier.
ProcessIdCaughtPerId ==
    /\ pc = "ids"
    /\ idIdx < Len(Extracted[xml.entries[entryIdx]])
    /\ LET step == Step(entryIdx, idIdx + 1)
           outcome == step.outcome
       IN /\ idIdx' = idIdx + 1
          /\ totalDigitalCurrencyIds' =
                IF Counted(outcome) THEN totalDigitalCurrencyIds + 1
                ELSE totalDigitalCurrencyIds
          /\ foundAddresses' =
                IF Found(outcome) THEN foundAddresses + 1 ELSE foundAddresses
          /\ addresses' =
                IF outcome = "accept"
                THEN Put(addresses, step.address, [step.record EXCEPT !.uid = entryIdx])
                ELSE addresses
          /\ raised' = IF Raises(outcome) THEN raised \cup {<<entryIdx, idIdx + 1>>} ELSE raised
          /\ pc' = "ids"
    /\ UNCHANGED <<fetches, run, xml, sdnEntries, entryIdx, processedEntries, file,
                   exitStatus, writes, fileAtStart, fatal>>

\* for (const id of ids) { ... }: one identifier; a raise leaves the try
\* block for the catch, which logs and goes on with the next entity.
ProcessId ==
    /\ pc = "ids"
    /\ idIdx < Len(Extracted[xml.entries[entryIdx]])
    /\ LET step == Step(entryIdx, idIdx + 1)
           outcome == step.outcome
       IN /\ idIdx' = idIdx + 1
          /\ totalDigitalCurrencyIds' =
                IF Counted(outcome) THEN totalDigitalCurrencyIds + 1
                ELSE totalDigitalCurrencyIds
          /\ foundAddresses' =
                IF Found(outcome) THEN foundAddresses + 1 ELSE foundAddresses
          /\ addresses' =
                IF outcome = "accept"
                THEN Put(addresses, step.address, [step.record EXCEPT !.uid = entryIdx])
                ELSE addresses
          /\ raised' = IF Raises(outcome) THEN raised \cup {<<entryIdx, idIdx + 1>>} ELSE raised
          /\ pc' = IF Raises(outcome) THEN "loop" ELSE "ids"
    /\ UNCHANGED <<fetches, run, xml, sdnEntries, entryIdx, processedEntries, file,
                   exitStatus, writes, fileAtStart, fatal>>

\* the identifiers of the entity are done
EndEntry ==
    /\ pc = "ids"
    /\ idIdx = Len(Extracted[xml.entries[entryIdx]])
    /\ pc' = "loop"
    /\ UNCHANGED <<fetches, run, xml, file, exitStatus, writes, fileAtStart, fatal>>
    /\ UNCHANGED loopVars

\* the loop is done: the summary is printed and addresses returned
ReturnAddresses ==
    /\ pc = "loop"
    /\ entryIdx = sdnEntries
    /\ pc' = "mkdir"
    /\ UNCHANGED <<fetches, run, xml, file, exitStatus, writes, fileAtStart, fatal>>
    /\ UNCHANGED loopVars

\* sanctionsData is built and fs.mkdir(dirname, {recursive: true}) awaited
Mkdir ==
    /\ pc = "mkdir"
    /\ \/ pc' = "write" /\ fatal' = fatal
       \/ pc' = "fatal" /\ fatal' = "mkdir"
    /\ UNCHANGED <<fetches, run, xml, file, exitStatus, writes, fileAtStart>>
    /\ UNCHANGED loopVars

\* WriteFile that adds the addresses of the run to those of the file
WriteFileMerging ==
    /\ pc = "write"
    /\ writes' = writes + 1
    /\ \/ /\ file' = SanctionsData(run,
                        [k \in DOMAIN file.addresses \cup DOMAIN addresses |->
                            IF k \in DOMAIN addresses THEN addresses[k]
                            ELSE file.addresses[k]])
          /\ pc' = "resolved"
          /\ fatal' = fatal
       \/ /\ file' \in {file, PartialFile}
          /\ pc' = "fatal"
          /\ fatal' = "write"
    /\ UNCHANGED <<fetches, run, xml, exitStatus, fileAtStart>>
    /\ UNCHANGED loopVars

\* fs.writeFile(OUTPUT_FILE, JSON.stringify(sanctionsData)): the file is
\* replaced; a failure leaves it as it was or truncated.
WriteFile ==
    /\ pc = "write"
    /\ writes' = writes + 1
    /\ \/ /\ file' = SanctionsData(run, addresses)
          /\ pc' = "resolved"
          /\ fatal' = fatal
       \/ /\ file' \in {file, PartialFile}
          /\ pc' = "fatal"
          /\ fatal' = "write"
    /\ UNCHANGED <<fetches, run, xml, exitStatus, fileAtStart>>
    /\ UNCHANGED loopVars

\* .then(() => process.exit(0))
ExitSuccess ==
    /\ pc = "resolved"
    /\ exitStatus' = 0
    /\ pc' = "exited"
    /\ UNCHANGED <<fetches, run, xml, file, writes, fileAtStart, fatal>>
    /\ UNCHANGED loopVars

\* ExitFailure that exits with status 0
ExitFailureWithStatus0 ==
    /\ pc = "fatal"
    /\ exitStatus' = 0
    /\ pc' = "exited"
    /\ UNCHANGED <<fetches, run, xml, file, writes, fileAtStart, fatal>>
    /\ UNCHANGED loopVars

\* .catch(error => process.exit(1))
ExitFailure ==
    /\ pc = "fatal"
    /\ exitStatus' = 1
    /\ pc' = "exited"
    /\ UNCHANGED <<fetches, run, xml, file, writes, fileAtStart, fatal>>
    /\ UNCHANGED loopVars

\* NextRun with the mapping of the earlier run kept in memory
NextRunKeepingAddresses ==
    /\ pc = "exited"
    /\ run < MaxRuns
    /\ run' = run + 1
    /\ pc' = "fetch"
    /\ xml' = NoSdnList
    /\ sdnEntries' = 0
    /\ entryIdx' = 0
    /\ idIdx' = 0
    /\ addresses' = addresses
    /\ processedEntries' = 0
    /\ totalDigitalCurrencyIds' = 0
    /\ foundAddresses' = 0
    /\ exitStatus' = -1
    /\ writes' = 0
    /\ fileAtStart' = file
    /\ raised' = {}
    /\ fatal' = "none"
    /\ file' = file
    /\ fetches' = NoFetches

\* the next scheduled run: a new process; only the file is kept
NextRun ==
    /\ pc = "exited"
    /\ run < MaxRuns
    /\ run' = run + 1
    /\ pc' = "fetch"
    /\ xml' = NoSdnList
    /\ sdnEntries' = 0
    /\ entryIdx' = 0
    /\ idIdx' = 0
    /\ addresses' = <<>>
    /\ processedEntries' = 0
    /\ totalDigitalCurrencyIds' = 0
    /\ foundAddresses' = 0
    /\ exitStatus' = -1
    /\ writes' = 0
    /\ fileAtStart' = file
    /\ raised' = {}
    /\ fatal' = "none"
    /\ file' = file
    /\ fetches' = NoFetches

Next ==
    \/ Fetch
    \/ Parse
    \/ NextEntry
    \/ ProcessId
    \/ EndEntry
    \/ ReturnAddresses
    \/ Mkdir
    \/ WriteFile
    \/ ExitSuccess
    \/ ExitFailure
    \/ NextRun

Spec == Init /\ [][Next]_vars

\* axios.get(SDN_LIST_URL) serving the documents of DocumentsN
FetchN ==
    /\ pc = "fetch"
    /\ \/ \E doc \in DocumentsN :
            /\ xml' = doc
            /\ pc' = "parse"
            /\ fatal' = fatal
       \/ /\ pc' = "fatal"
          /\ fatal' = "fetch"
          /\ xml' = xml
    /\ UNCHANGED <<fetches, run, file, exitStatus, writes, fileAtStart>>
    /\ UNCHANGED loopVars

NextN ==
    \/ FetchN
    \/ Parse
    \/ NextEntry
    \/ ProcessId
    \/ EndEntry
    \/ ReturnAddresses
    \/ Mkdir
    \/ WriteFile
    \/ ExitSuccess
    \/ ExitFailure
    \/ NextRun

\* the script on the documents of DocumentsN
SpecN == Init /\ [][NextN]_vars

\* a step of the running process: Node runs the script until process.exit,
\* and every awaited operation (the request, mkdir, writeFile) settles
RunStep ==
    \/ Fetch
    \/ Parse
    \/ NextEntry
    \/ ProcessId
    \/ EndEntry
    \/ ReturnAddresses
    \/ Mkdir
    \/ WriteFile
    \/ ExitSuccess
    \/ ExitFailure

\* the script, with a started run going on until it exits; a next run need
\* not come
FairSpec == Init /\ [][Next]_vars /\ WF_vars(RunStep)

(***************************************************************************)
(* SpecB: the second revision in scripts/update-sanctions.js, lines        *)
(* 170-289.  The parser has no isArray option (one child is an object,     *)
(* several are an array), the type-label is read from the idType attribute *)
(* of the id element, and the entity loop has no try block of its own.     *)
(***************************************************************************)
LabelAddress == "Digital Currency Address"

RawIdB(attr, number) == [attrIdType |-> attr, idNumber |-> number]
RawEntityB(first, last, programs, idList, date, remarks) ==
    [firstName |-> first, lastName |-> last, programs |-> programs, ids |-> idList,
     publishDate |-> date, remarks |-> remarks]

EntityShapesB ==
    << RawEntityB(Absent, Text("Lazarus Group"), <<Text("DPRK3")>>,
                  <<RawIdB(Text(LabelAddress), Text("1A2b3C4d5E6f"))>>,
                  Text("04/14/2022"), Absent),
       RawEntityB(Text("Ivan"), Text("Petrov"), <<Text("SDGT"), Text("CYBER2")>>,
                  <<RawIdB(Text(LabelPassport), Text("P123456789X")),
                    RawIdB(Text(LabelETH), Text(" 0xABC1234567 "))>>,
                  Absent, Text("Linked to: Hydra Market")),
       RawEntityB(Text("Anna"), Absent, <<>>,
                  <<RawIdB(Text(LabelXBT), Absent)>>,
                  Absent, Absent),
       RawEntityB(Absent, Absent, <<Text("CYBER2")>>,
                  <<RawIdB(Text(LabelETH), Text("0xDEF7654321")),
                    RawIdB(Text(LabelXBT), Text("12345678901"))>>,
                  Absent, Absent),
       RawEntityB(Absent, Text("Hydra Market"), <<Text("CYBER2")>>,
                  <<RawIdB(Absent, Text("0xCCC0000000DD"))>>,
                  Absent, Absent) >>

DocumentsB ==
    {MalformedXml, NoSdnList} \cup { SdnList(s) : s \in SeqsUpTo(1..Len(EntityShapesB), MaxEntities) }

\* attributes are kept as strings (parseAttributeValue is off)
ParseAttribute(raw) == IF raw.present THEN Str(raw.text) ELSE Undefined

\* entry.programList?.program: undefined, the one label, or the array of them
ParseEntryB(e) ==
    [firstName |-> ParseTagValue(e.firstName),
     lastName |-> ParseTagValue(e.lastName),
     program |-> [k \in 1..Len(e.programs) |-> ParseTagValue(e.programs[k])],
     id |-> [k \in 1..Len(e.ids) |->
                [idType |-> ParseAttribute(e.ids[k].attrIdType),
                 idNumber |-> ParseTagValue(e.ids[k].idNumber)]],
     publishDate |-> ParseTagValue(e.publishDate),
     remarks |-> ParseTagValue(e.remarks)]

\* result.sdnList.sdnEntry, sdnList.length and sdnList.forEach: a TypeError
\* unless sdnEntry is an array, which it is for two entries or more.
SdnListIsArray(doc) == doc.hasSdnList /\ Len(doc.entries) >= 2

\* entry.lastName || entry.firstName || 'Unknown Entity'
EntityNameB(entry) == Or(entry.lastName, Or(entry.firstName, Str("Unknown Entity")))

\* Array.isArray(programs) ? programs.join(', ') : programs, and
\* programString || 'Not specified'
ProgramStringB(entry) ==
    LET programString ==
            IF Len(entry.program) >= 2
            THEN Str(Join([k \in 1..Len(entry.program) |-> entry.program[k].v], ", "))
            ELSE IF Len(entry.program) = 1 THEN entry.program[1] ELSE Undefined
    IN Or(programString, Str("Not specified"))

AddressRecordB(entry, id) ==
    [entity |-> EntityNameB(entry).v,
     program |-> ProgramStringB(entry).v,
     date |-> Or(entry.publishDate, Str("Date not specified")).v,
     reason |-> Or(entry.remarks, Str("Listed on OFAC SDN List")).v,
     type |-> id.idType.v]

\* What one identifier does: "skip" (id['@_idType']?.includes(...) is not
\* true), "raise" (id.idNumber is undefined or a number: no toLowerCase) or
\* "accept".
IdOutcomeB(id) ==
    IF id.idType.t # "string" \/ ~Includes(id.idType.v, LabelAddress) THEN "skip"
    ELSE IF id.idNumber.t # "string" THEN "raise"
    ELSE "accept"

ParsedShapesB == [s \in 1..Len(EntityShapesB) |-> ParseEntryB(EntityShapesB[s])]

ExtractedB ==
    [s \in 1..Len(EntityShapesB) |->
        [n \in 1..Len(ParsedShapesB[s].id) |->
            [outcome |-> IdOutcomeB(ParsedShapesB[s].id[n]),
             address |-> ToLowerCase(ParsedShapesB[s].id[n].idNumber.v),
             record |-> AddressRecordB(ParsedShapesB[s], ParsedShapesB[s].id[n])]]]

InitB == Init

\* axios.get(SDN_LIST_URL)
FetchB ==
    /\ pc = "fetch"
    /\ \/ \E doc \in DocumentsB :
            /\ xml' = doc
            /\ pc' = "parse"
            /\ fatal' = fatal
       \/ /\ pc' = "fatal"
          /\ fatal' = "fetch"
          /\ xml' = xml
    /\ UNCHANGED <<fetches, run, file, exitStatus, writes, fileAtStart>>
    /\ UNCHANGED loopVars

\* parser.parse(response.data), result.sdnList.sdnEntry, sdnList.length and
\* the call of sdnList.forEach
ParseB ==
    /\ pc = "parse"
    /\ IF xml.wellFormed /\ SdnListIsArray(xml)
       THEN /\ sdnEntries' = Len(xml.entries)
            /\ pc' = "loop"
            /\ fatal' = fatal
       ELSE /\ sdnEntries' = sdnEntries
            /\ pc' = "fatal"
            /\ fatal' = "parse"
    /\ UNCHANGED <<fetches, run, xml, entryIdx, idIdx, addresses, processedEntries,
                   totalDigitalCurrencyIds, foundAddresses, file, exitStatus,
                   writes, fileAtStart, raised>>

\* sdnList.forEach(entry => { entityName, programString, ids
NextEntryB ==
    /\ pc = "loop"
    /\ entryIdx < sdnEntries
    /\ entryIdx' = entryIdx + 1
    /\ idIdx' = 0
    /\ pc' = "ids"
    /\ UNCHANGED <<fetches, run, xml, sdnEntries, addresses, processedEntries,
                   totalDigitalCurrencyIds, foundAddresses, file, exitStatus,
                   writes, fileAtStart, raised, fatal>>

\* ids.forEach(id => { ... }): one identifier; a raise leaves both forEach
\* calls for the catch of fetchAndParseSDNList, which throws it on.
ProcessIdB ==
    /\ pc = "ids"
    /\ idIdx < Len(ExtractedB[xml.entries[entryIdx]])
    /\ LET step == ExtractedB[xml.entries[entryIdx]][idIdx + 1]
       IN /\ idIdx' = idIdx + 1
          /\ addresses' =
                IF step.outcome = "accept"
                THEN Put(addresses, step.address, step.record)
                ELSE addresses
          /\ raised' =
                IF step.outcome = "raise" THEN raised \cup {<<entryIdx, idIdx + 1>>}
                ELSE raised
          /\ pc' = IF step.outcome = "raise" THEN "fatal" ELSE "ids"
          /\ fatal' = IF step.outcome = "raise" THEN "entity" ELSE fatal
    /\ UNCHANGED <<fetches, run, xml, sdnEntries, entryIdx, processedEntries,
                   totalDigitalCurrencyIds, foundAddresses, file, exitStatus,
                   writes, fileAtStart>>

\* the identifiers of the entity are done
EndEntryB ==
    /\ pc = "ids"
    /\ idIdx = Len(ExtractedB[xml.entries[entryIdx]])
    /\ pc' = "loop"
    /\ UNCHANGED <<fetches, run, xml, file, exitStatus, writes, fileAtStart, fatal>>
    /\ UNCHANGED loopVars

\* forEach is done: addresses is returned
ReturnAddressesB ==
    /\ pc = "loop"
    /\ entryIdx = sdnEntries
    /\ pc' = "mkdir"
    /\ UNCHANGED <<fetches, run, xml, file, exitStatus, writes, fileAtStart, fatal>>
    /\ UNCHANGED loopVars

\* sanctionsData is built and fs.mkdir awaited
MkdirB ==
    /\ pc = "mkdir"
    /\ \/ pc' = "write" /\ fatal' = fatal
       \/ pc' = "fatal" /\ fatal' = "mkdir"
    /\ UNCHANGED <<fetches, run, xml, file, exitStatus, writes, fileAtStart>>
    /\ UNCHANGED loopVars

\* fs.writeFile(OUTPUT_FILE, JSON.stringify(sanctionsData, null, 2))
WriteFileB ==
    /\ pc = "write"
    /\ writes' = writes + 1
    /\ \/ /\ file' = SanctionsData(run, addresses)
          /\ pc' = "resolved"
          /\ fatal' = fatal
       \/ /\ file' \in {file, PartialFile}
          /\ pc' = "fatal"
          /\ fatal' = "write"
    /\ UNCHANGED <<fetches, run, xml, exitStatus, fileAtStart>>
    /\ UNCHANGED loopVars

\* .then(() => console.log(...)): the process ends with status 0
EndSuccessB ==
    /\ pc = "resolved"
    /\ exitStatus' = 0
    /\ pc' = "exited"
    /\ UNCHANGED <<fetches, run, xml, file, writes, fileAtStart, fatal>>
    /\ UNCHANGED loopVars

\* .catch(error => { ...; process.exit(1) })
ExitFailureB ==
    /\ pc = "fatal"
    /\ exitStatus' = 1
    /\ pc' = "exited"
    /\ UNCHANGED <<fetches, run, xml, file, writes, fileAtStart, fatal>>
    /\ UNCHANGED loopVars

NextB ==
    \/ FetchB
    \/ ParseB
    \/ NextEntryB
    \/ ProcessIdB
    \/ EndEntryB
    \/ ReturnAddressesB
    \/ MkdirB
    \/ WriteFileB
    \/ EndSuccessB
    \/ ExitFailureB
    \/ NextRun

SpecB == InitB /\ [][NextB]_vars

(***************************************************************************)
(* SpecP0: the revision in unnamed/part_000.  The output starts from the   *)
(* hard-coded KNOWN_ADDRESSES; the press-release page and the SDN list are *)
(* fetched concurrently (Promise.all), each fetch catching its own errors. *)
(***************************************************************************)
KnownRecord(entity, program, date) == [entity |-> entity, program |-> program, date |-> date]

LazarusApril == KnownRecord("Lazarus Group", "North Korea Sanctions Program", "April 2022")
TornadoAugust == KnownRecord("Tornado Cash", "Cyber-related Sanctions Program", "August 2022")
BlenderMay == KnownRecord("Blender.io", "North Korea Sanctions Program", "May 2022")

KNOWN_ADDRESSES ==
    [key \in {"bc1qe7cjq79qw8nf7zc6mvq7vqlwy9phyqx8m5wqz4",
              "0x8589427373d6d84e98730d7795d8f6f8731fda16",
              "0x722122df12d4e14e13ac3b6895a86e84145b6967",
              "bc1q5shae8dzt35ky6k355q4ynac6ykr9hs2vhwfr6",
              "0xfd8610d20aa15b7b2e3be39b396a1bc3516c7144",
              "bc1qa5wkgaew2dkv56kfvj49j0av5nml45x9ek9hz6"} |->
        CASE key \in {"bc1qe7cjq79qw8nf7zc6mvq7vqlwy9phyqx8m5wqz4",
                      "bc1qa5wkgaew2dkv56kfvj49j0av5nml45x9ek9hz6"} -> LazarusApril
          [] key = "bc1q5shae8dzt35ky6k355q4ynac6ykr9hs2vhwfr6" -> BlenderMay
          [] OTHER -> TornadoAugust]

\* The recent-actions page: the titles of its articles.
PressPages ==
    { <<>>,
      <<"Treasury Sanctions Crypto Mixer">>,
      <<"Sanctions on Virtual Currency Exchange", "Counter Narcotics Designations">> }

\* title.toLowerCase().includes('crypto') || ... 'virtual currency' || ...
\* 'digital currency'
IsRelevantTitle(title) ==
    \/ Includes(ToLowerCase(title), "crypto")
    \/ Includes(ToLowerCase(title), "virtual currency")
    \/ Includes(ToLowerCase(title), "digital currency")

\* the press releases the page loop logs
RelevantTitles(page) == Cardinality({ k \in 1..Len(page) : IsRelevantTitle(page[k]) })

\* $(id).attr('idType') === 'Digital Currency Address': the addresses the
\* SDN loop logs, per shape of entity
FoundInShape ==
    [s \in 1..Len(EntityShapesB) |->
        Cardinality({ n \in 1..Len(EntityShapesB[s].ids) :
                        EntityShapesB[s].ids[n].attrIdType = Text(LabelAddress) })]

RECURSIVE FoundInEntries(_)
FoundInEntries(entries) ==
    IF Len(entries) = 0 THEN 0
    ELSE FoundInShape[Head(entries)] + FoundInEntries(Tail(entries))

\* Object.assign(addresses, pressReleaseAddresses, sdnListAddresses)
Assign(target, a, b) ==
    [key \in (DOMAIN target) \cup (DOMAIN a) \cup (DOMAIN b) |->
        IF key \in DOMAIN b THEN b[key]
        ELSE IF key \in DOMAIN a THEN a[key] ELSE target[key]]

\* sanctionsData of part_000: metadata (lastUpdated, sources) and addresses
SanctionsDataP0(now, addrs) ==
    [kind |-> "snapshot", lastUpdated |-> now,
     totalAddresses |-> Cardinality(DOMAIN addrs), addresses |-> addrs]

InitP0 ==
    /\ Init
    /\ pc = "fetch"

\* fetchSanctionedAddresses up to the await: addresses = {...KNOWN_ADDRESSES}
\* and both fetches are called, each running to its axios.get.
StartFetches ==
    /\ pc = "fetch"
    /\ addresses' = KNOWN_ADDRESSES
    /\ fetches' = [press |-> [fetches.press EXCEPT !.state = "pending"],
                   sdn |-> [fetches.sdn EXCEPT !.state = "pending"]]
    /\ pc' = "await"
    /\ UNCHANGED <<run, xml, sdnEntries, entryIdx, idIdx, processedEntries,
                   totalDigitalCurrencyIds, foundAddresses, file, exitStatus,
                   writes, fileAtStart, raised, fatal>>

\* fetchOFACPressReleases after its axios.get: the page is scanned and the
\* empty newAddresses returned, or the error is caught and {} returned.
PressReleasesSettle ==
    /\ pc = "await"
    /\ fetches.press.state = "pending"
    /\ \/ \E page \in PressPages :
            fetches' = [fetches EXCEPT !.press =
                           [state |-> "fetched", found |-> RelevantTitles(page), result |-> <<>>]]
       \/ fetches' = [fetches EXCEPT !.press =
                           [state |-> "failed", found |-> 0, result |-> <<>>]]
    /\ UNCHANGED <<pc, run, xml, sdnEntries, entryIdx, idIdx, addresses, processedEntries,
                   totalDigitalCurrencyIds, foundAddresses, file, exitStatus,
                   writes, fileAtStart, raised, fatal>>

\* SDNListSettles with the error of the fetch thrown on: the run is rejected
SDNListSettlesOrThrows ==
    /\ pc = "await"
    /\ fetches.sdn.state = "pending"
    /\ \/ \E doc \in DocumentsB :
            /\ xml' = doc
            /\ fetches' = [fetches EXCEPT !.sdn =
                              [state |-> "fetched", found |-> FoundInEntries(doc.entries),
                               result |-> <<>>]]
            /\ UNCHANGED <<pc, fatal>>
       \/ /\ fetches' = [fetches EXCEPT !.sdn =
                              [state |-> "failed", found |-> 0, result |-> <<>>]]
          /\ pc' = "fatal"
          /\ fatal' = "fetch"
          /\ xml' = xml
    /\ UNCHANGED <<run, sdnEntries, entryIdx, idIdx, addresses, processedEntries,
                   totalDigitalCurrencyIds, foundAddresses, file, exitStatus,
                   writes, fileAtStart, raised>>

\* SDNListSettles with an address found in the list kept in newAddresses
SDNListSettlesKeepingFound ==
    /\ pc = "await"
    /\ fetches.sdn.state = "pending"
    /\ \/ \E doc \in DocumentsB :
            /\ xml' = doc
            /\ fetches' = [fetches EXCEPT !.sdn =
                              [state |-> "fetched", found |-> FoundInEntries(doc.entries),
                               result |-> IF FoundInEntries(doc.entries) > 0
                                          THEN [key \in {"0xfound0000000000"} |-> TornadoAugust]
                                          ELSE <<>>]]
       \/ /\ fetches' = [fetches EXCEPT !.sdn =
                              [state |-> "failed", found |-> 0, result |-> <<>>]]
          /\ xml' = xml
    /\ UNCHANGED <<pc, run, sdnEntries, entryIdx, idIdx, addresses, processedEntries,
                   totalDigitalCurrencyIds, foundAddresses, file, exitStatus,
                   writes, fileAtStart, raised, fatal>>

\* fetchOFACSDNList after its axios.get: the entries are scanned (an address
\* found is logged, not kept) and the empty newAddresses returned, or the
\* error is caught and {} returned.
SDNListSettles ==
    /\ pc = "await"
    /\ fetches.sdn.state = "pending"
    /\ \/ \E doc \in DocumentsB :
            /\ xml' = doc
            /\ fetches' = [fetches EXCEPT !.sdn =
                              [state |-> "fetched", found |-> FoundInEntries(doc.entries),
                               result |-> <<>>]]
       \/ /\ fetches' = [fetches EXCEPT !.sdn =
                              [state |-> "failed", found |-> 0, result |-> <<>>]]
          /\ xml' = xml
    /\ UNCHANGED <<pc, run, sdnEntries, entryIdx, idIdx, addresses, processedEntries,
                   totalDigitalCurrencyIds, foundAddresses, file, exitStatus,
                   writes, fileAtStart, raised, fatal>>

\* Promise.all resolves: Object.assign(addresses, ...), sanctionsData
Combine ==
    /\ pc = "await"
    /\ fetches.press.state \in {"fetched", "failed"}
    /\ fetches.sdn.state \in {"fetched", "failed"}
    /\ addresses' = Assign(addresses, fetches.press.result, fetches.sdn.result)
    /\ pc' = "mkdir"
    /\ UNCHANGED <<fetches, run, xml, sdnEntries, entryIdx, idIdx, processedEntries,
                   totalDigitalCurrencyIds, foundAddresses, file, exitStatus,
                   writes, fileAtStart, raised, fatal>>

\* fs.mkdir(path.dirname(OUTPUT_FILE), { recursive: true })
MkdirP0 ==
    /\ pc = "mkdir"
    /\ \/ pc' = "write" /\ fatal' = fatal
       \/ pc' = "fatal" /\ fatal' = "mkdir"
    /\ UNCHANGED <<fetches, run, xml, file, exitStatus, writes, fileAtStart>>
    /\ UNCHANGED loopVars

\* fs.writeFile(OUTPUT_FILE, JSON.stringify(sanctionsData, null, 2))
WriteFileP0 ==
    /\ pc = "write"
    /\ writes' = writes + 1
    /\ \/ /\ file' = SanctionsDataP0(run, addresses)
          /\ pc' = "resolved"
          /\ fatal' = fatal
       \/ /\ file' \in {file, PartialFile}
          /\ pc' = "fatal"
          /\ fatal' = "write"
    /\ UNCHANGED <<fetches, run, xml, exitStatus, fileAtStart>>
    /\ UNCHANGED loopVars

\* .then(() => console.log(...)): the process ends with status 0
EndSuccessP0 ==
    /\ pc = "resolved"
    /\ exitStatus' = 0
    /\ pc' = "exited"
    /\ UNCHANGED <<fetches, run, xml, file, writes, fileAtStart, fatal>>
    /\ UNCHANGED loopVars

\* .catch(error => { ...; process.exit(1) })
ExitFailureP0 ==
    /\ pc = "fatal"
    /\ exitStatus' = 1
    /\ pc' = "exited"
    /\ UNCHANGED <<fetches, run, xml, file, writes, fileAtStart, fatal>>
    /\ UNCHANGED loopVars

NextP0 ==
    \/ StartFetches
    \/ PressReleasesSettle
    \/ SDNListSettles
    \/ Combine
    \/ MkdirP0
    \/ WriteFileP0
    \/ EndSuccessP0
    \/ ExitFailureP0
    \/ NextRun

SpecP0 == InitP0 /\ [][NextP0]_vars

(***************************************************************************)
(* SpecP1: the accumulating revision in unnamed/part_001.  The parser      *)
(* keeps every tag value a string (parseTagValue is off), the loop guards  *)
(* the types it reads, and an address maps to its type and the list        *)
(* `entries` of every accepted occurrence.  The entities of the documents   *)
(* have no akaList, so no record has an akas field.                        *)
(***************************************************************************)
\* trimValues without parseTagValue: the trimmed text, always a string
ParseTextP1(raw) == IF raw.present THEN Str(Trim(raw.text)) ELSE Undefined

ParseEntryP1(e) ==
    [firstName |-> ParseTextP1(e.firstName),
     lastName |-> ParseTextP1(e.lastName),
     program |-> [k \in 1..Len(e.programs) |-> ParseTextP1(e.programs[k])],
     id |-> [k \in 1..Len(e.ids) |->
                [idType |-> ParseTextP1(e.ids[k].idType),
                 idNumber |-> ParseTextP1(e.ids[k].idNumber)]]]

\* typeof id.idNumber === 'string' ? id.idNumber.toLowerCase() : ''
AddressOfP1(id) == IF id.idNumber.t = "string" THEN ToLowerCase(id.idNumber.v) ELSE ""

\* entryDetails
EntryDetailsP1(entry, id) ==
    [entity |-> Trim(EntityName(entry).v),
     program |-> Join([k \in 1..Len(entry.program) |-> entry.program[k].v], ", "),
     type |-> id.idType.v,
     uid |-> 0]

\* What one identifier does: "skip" (no idType, or one without 'Digital
\* Currency'), "invalid" (empty or short address) or "accept".  Every value
\* is a string or undefined, so nothing in the try block raises.
IdOutcomeP1(id) ==
    IF ~Truthy(id.idType) \/ id.idType.t # "string" THEN "skip"
    ELSE IF ~Includes(id.idType.v, DigitalCurrency) THEN "skip"
    ELSE IF InvalidAddress(AddressOfP1(id)) THEN "invalid"
    ELSE "accept"

ParsedShapesP1 == [s \in 1..Len(EntityShapes) |-> ParseEntryP1(EntityShapes[s])]

ExtractedP1 ==
    [s \in 1..Len(EntityShapes) |->
        [n \in 1..Len(ParsedShapesP1[s].id) |->
            [outcome |-> IdOutcomeP1(ParsedShapesP1[s].id[n]),
             address |-> AddressOfP1(ParsedShapesP1[s].id[n]),
             type |-> ParsedShapesP1[s].id[n].idType.v,
             details |-> EntryDetailsP1(ParsedShapesP1[s], ParsedShapesP1[s].id[n])]]]

\* PushEntry that replaces the list of the address by the new element
PushEntryOverwriting(map, key, type, details) ==
    Put(map, key, [type |-> type, entries |-> <<details>>])

\* PushEntry that gives the address the type of the latest occurrence
PushEntryRetyping(map, key, type, details) ==
    IF key \in DOMAIN map
    THEN [map EXCEPT ![key].entries = Append(@, details), ![key].type = type]
    ELSE Put(map, key, [type |-> type, entries |-> <<details>>])

\* if (!addresses[address]) addresses[address] = {type, entries: []};
\* addresses[address].entries.push(entryDetails)
PushEntry(map, key, type, details) ==
    IF key \in DOMAIN map
    THEN [map EXCEPT ![key].entries = Append(@, details)]
    ELSE Put(map, key, [type |-> type, entries |-> <<details>>])

NoFileP1 ==
    [kind |-> "absent", lastUpdated |-> 0, totalAddresses |-> 0, totalEntries |-> 0,
     addresses |-> <<>>]
PartialFileP1 ==
    [kind |-> "partial", lastUpdated |-> 0, totalAddresses |-> 0, totalEntries |-> 0,
     addresses |-> <<>>]

\* SanctionsDataP1 with the number of entries as totalAddresses
SanctionsDataP1CountingEntries(now, addrs, totalEntries) ==
    [kind |-> "snapshot", lastUpdated |-> now,
     totalAddresses |-> totalEntries,
     totalEntries |-> totalEntries, addresses |-> addrs]

\* sanctionsData: totalAddresses is Object.keys(addresses).length and
\* totalEntries the foundAddresses the extraction returned
SanctionsDataP1(now, addrs, totalEntries) ==
    [kind |-> "snapshot", lastUpdated |-> now,
     totalAddresses |-> Cardinality(DOMAIN addrs),
     totalEntries |-> totalEntries, addresses |-> addrs]

InitP1 ==
    /\ pc = "fetch"
    /\ run = 1
    /\ xml = NoSdnList
    /\ sdnEntries = 0
    /\ entryIdx = 0
    /\ idIdx = 0
    /\ addresses = <<>>
    /\ processedEntries = 0
    /\ totalDigitalCurrencyIds = 0
    /\ foundAddresses = 0
    /\ file = NoFileP1
    /\ exitStatus = -1
    /\ writes = 0
    /\ fileAtStart = NoFileP1
    /\ raised = {}
    /\ fatal = "none"
    /\ fetches = NoFetches

\* the documents served to part_001 are built from these shapes
ShapesP1 == {1, 2, 3, 4, 8}

DocumentsP1 ==
    {MalformedXml, NoSdnList} \cup { SdnList(s) : s \in SeqsUpTo(ShapesP1, MaxEntities) }

\* axios.get(SDN_LIST_URL, ...): the response, or a rejection
FetchP1 ==
    /\ pc = "fetch"
    /\ \/ \E doc \in DocumentsP1 :
            /\ xml' = doc
            /\ pc' = "parse"
            /\ fatal' = fatal
       \/ /\ pc' = "fatal"
          /\ fatal' = "fetch"
          /\ xml' = xml
    /\ UNCHANGED <<fetches, run, file, exitStatus, writes, fileAtStart>>
    /\ UNCHANGED loopVars

\* parser.parse(xmlContent), sdnEntries, the counters and sdnDate
ParseP1 == Parse

\* for (const entry of sdnEntries) { processedEntries++; try { ids,
\* entityName, akaNames
NextEntryP1 == NextEntry

\* for (const id of ids) { ... }: one identifier
ProcessIdP1 ==
    /\ pc = "ids"
    /\ idIdx < Len(ExtractedP1[xml.entries[entryIdx]])
    /\ LET step == ExtractedP1[xml.entries[entryIdx]][idIdx + 1]
       IN /\ idIdx' = idIdx + 1
          /\ totalDigitalCurrencyIds' =
                IF step.outcome \in {"invalid", "accept"}
                THEN totalDigitalCurrencyIds + 1
                ELSE totalDigitalCurrencyIds
          /\ foundAddresses' =
                IF step.outcome = "accept" THEN foundAddresses + 1 ELSE foundAddresses
          /\ addresses' =
                IF step.outcome = "accept"
                THEN PushEntry(addresses, step.address, step.type,
                               [step.details EXCEPT !.uid = entryIdx])
                ELSE addresses
    /\ pc' = "ids"
    /\ UNCHANGED <<fetches, run, xml, sdnEntries, entryIdx, processedEntries, file,
                   exitStatus, writes, fileAtStart, raised, fatal>>

\* the identifiers of the entity are done
EndEntryP1 ==
    /\ pc = "ids"
    /\ idIdx = Len(ExtractedP1[xml.entries[entryIdx]])
    /\ pc' = "loop"
    /\ UNCHANGED <<fetches, run, xml, file, exitStatus, writes, fileAtStart, fatal>>
    /\ UNCHANGED loopVars

\* the loop is done: {addresses, sdnDate, totalEntries: foundAddresses}
ReturnAddressesP1 == ReturnAddresses

\* sanctionsData is built and fs.mkdir awaited
MkdirP1 == Mkdir

\* fs.writeFile(OUTPUT_FILE, JSON.stringify(sanctionsData, null, 2))
WriteFileP1 ==
    /\ pc = "write"
    /\ writes' = writes + 1
    /\ \/ /\ file' = SanctionsDataP1(run, addresses, foundAddresses)
          /\ pc' = "resolved"
          /\ fatal' = fatal
       \/ /\ file' \in {file, PartialFileP1}
          /\ pc' = "fatal"
          /\ fatal' = "write"
    /\ UNCHANGED <<fetches, run, xml, exitStatus, fileAtStart>>
    /\ UNCHANGED loopVars

\* .then(() => process.exit(0))
ExitSuccessP1 == ExitSuccess

\* .catch(error => process.exit(1))
ExitFailureP1 == ExitFailure

NextP1 ==
    \/ FetchP1
    \/ ParseP1
    \/ NextEntryP1
    \/ ProcessIdP1
    \/ EndEntryP1
    \/ ReturnAddressesP1
    \/ MkdirP1
    \/ WriteFileP1
    \/ ExitSuccessP1
    \/ ExitFailureP1
    \/ NextRun

SpecP1 == InitP1 /\ [][NextP1]_vars

(***************************************************************************)
(* SpecP2: the revision in unnamed/part_002, lines 159-299.  The parser    *)
(* runs with its defaults (tag values trimmed and parsed, no isArray), the *)
(* address is id.idNumber?.toLowerCase() with no test of the result, and   *)
(* the loops have no try block.  The entities of the documents have no     *)
(* publishInformation and no remarks.                                      *)
(***************************************************************************)
\* the documents served to part_002 are built from these shapes
ShapesP2 == {1, 2, 3, 4, 8}

DocumentsP2 ==
    {MalformedXml, NoSdnList} \cup { SdnList(s) : s \in SeqsUpTo(ShapesP2, MaxEntities) }

\* id.idNumber?.toLowerCase() and its use as a property name: undefined
\* becomes the key "undefined"
AddressOfP2(id) ==
    IF id.idNumber.t = "undefined" THEN "undefined" ELSE ToLowerCase(id.idNumber.v)

\* entry.lastName || entry.firstName || 'Unknown Entity'
EntityNameP2(entry) == Or(entry.lastName, Or(entry.firstName, Str("Unknown Entity")))

\* Array.isArray(programs) ? programs.join(', ') : programs || 'Not specified'
\* (one program child is a scalar, several are an array)
ProgramStringP2(entry) ==
    IF Len(entry.program) >= 2
    THEN Join([k \in 1..Len(entry.program) |-> entry.program[k].v], ", ")
    ELSE IF Len(entry.program) = 1
         THEN Or(entry.program[1], Str("Not specified")).v
         ELSE "Not specified"

AddressRecordP2(entry, id) ==
    [entity |-> EntityNameP2(entry).v,
     program |-> ProgramStringP2(entry),
     date |-> "Date not specified",
     reason |-> "Listed on OFAC SDN List",
     type |-> id.idType.v]

\* What one identifier does: "skip" (id.idType is falsy or lacks 'Digital
\* Currency Address'), "raise" (idType or idNumber is a number: no includes,
\* no toLowerCase) or "accept" (whatever the address is).
IdOutcomeP2(id) ==
    IF ~Truthy(id.idType) THEN "skip"
    ELSE IF id.idType.t = "number" THEN "raise"
    ELSE IF ~Includes(id.idType.v, LabelAddress) THEN "skip"
    ELSE IF id.idNumber.t = "number" THEN "raise"
    ELSE "accept"

\* the parse result of an entity: the values of the script's parser
ExtractedP2 ==
    [s \in 1..Len(EntityShapes) |->
        [n \in 1..Len(ParsedShapes[s].id) |->
            [outcome |-> IdOutcomeP2(ParsedShapes[s].id[n]),
             address |-> AddressOfP2(ParsedShapes[s].id[n]),
             record |-> AddressRecordP2(ParsedShapes[s], ParsedShapes[s].id[n])]]]

InitP2 ==
    /\ pc = "install"
    /\ run = 1
    /\ xml = NoSdnList
    /\ sdnEntries = 0
    /\ entryIdx = 0
    /\ idIdx = 0
    /\ addresses = <<>>
    /\ processedEntries = 0
    /\ totalDigitalCurrencyIds = 0
    /\ foundAddresses = 0
    /\ file = NoFile
    /\ exitStatus = -1
    /\ writes = 0
    /\ fileAtStart = NoFile
    /\ raised = {}
    /\ fatal = "none"
    /\ fetches = NoFetches

\* exec('npm install axios fast-xml-parser'): resolved, or rejected
InstallP2 ==
    /\ pc = "install"
    /\ \/ pc' = "fetch" /\ fatal' = fatal
       \/ pc' = "fatal" /\ fatal' = "install"
    /\ UNCHANGED <<fetches, run, xml, file, exitStatus, writes, fileAtStart>>
    /\ UNCHANGED loopVars

\* axios.get(SDN_LIST_URL)
FetchP2 ==
    /\ pc = "fetch"
    /\ \/ \E doc \in DocumentsP2 :
            /\ xml' = doc
            /\ pc' = "parse"
            /\ fatal' = fatal
       \/ /\ pc' = "fatal"
          /\ fatal' = "fetch"
          /\ xml' = xml
    /\ UNCHANGED <<fetches, run, file, exitStatus, writes, fileAtStart>>
    /\ UNCHANGED loopVars

\* parser.parse(response.data), result.sdnList?.sdnEntry || [] and the call
\* of sdnEntries.forEach: one sdnEntry child is an object, which has no
\* forEach
ParseP2 ==
    /\ pc = "parse"
    /\ IF xml.wellFormed /\ Len(SdnEntries(xml)) # 1
       THEN /\ sdnEntries' = Len(SdnEntries(xml))
            /\ pc' = "loop"
            /\ fatal' = fatal
       ELSE /\ sdnEntries' = sdnEntries
            /\ pc' = "fatal"
            /\ fatal' = "parse"
    /\ UNCHANGED <<fetches, run, xml, entryIdx, idIdx, addresses, processedEntries,
                   totalDigitalCurrencyIds, foundAddresses, file, exitStatus,
                   writes, fileAtStart, raised>>

\* sdnEntries.forEach((entry, index) => { if (entry.idList && entry.idList.id)
\* { ids
NextEntryP2 == NextEntryB

\* ids.forEach(id => { ... }): one identifier; a raise leaves both forEach
\* calls for the catch of fetchAndParseSDNList, which throws it on.
ProcessIdP2 ==
    /\ pc = "ids"
    /\ idIdx < Len(ExtractedP2[xml.entries[entryIdx]])
    /\ LET step == ExtractedP2[xml.entries[entryIdx]][idIdx + 1]
       IN /\ idIdx' = idIdx + 1
          /\ addresses' =
                IF step.outcome = "accept"
                THEN Put(addresses, step.address, step.record)
                ELSE addresses
          /\ raised' =
                IF step.outcome = "raise" THEN raised \cup {<<entryIdx, idIdx + 1>>}
                ELSE raised
          /\ pc' = IF step.outcome = "raise" THEN "fatal" ELSE "ids"
          /\ fatal' = IF step.outcome = "raise" THEN "entity" ELSE fatal
    /\ UNCHANGED <<fetches, run, xml, sdnEntries, entryIdx, processedEntries,
                   totalDigitalCurrencyIds, foundAddresses, file, exitStatus,
                   writes, fileAtStart>>

\* the identifiers of the entity are done
EndEntryP2 ==
    /\ pc = "ids"
    /\ idIdx = Len(ExtractedP2[xml.entries[entryIdx]])
    /\ pc' = "loop"
    /\ UNCHANGED <<fetches, run, xml, file, exitStatus, writes, fileAtStart, fatal>>
    /\ UNCHANGED loopVars

\* forEach is done: addresses is returned
ReturnAddressesP2 == ReturnAddressesB

\* sanctionsData is built and fs.mkdir awaited
MkdirP2 == MkdirB

\* fs.writeFile(OUTPUT_FILE, JSON.stringify(sanctionsData, null, 2))
WriteFileP2 == WriteFileB

\* .then(() => console.log(...)): the process ends with status 0
EndSuccessP2 == EndSuccessB

\* .catch(error => { ...; process.exit(1) })
ExitFailureP2 == ExitFailureB

\* the next scheduled run of part_002
NextRunP2 ==
    /\ pc = "exited"
    /\ run < MaxRuns
    /\ run' = run + 1
    /\ pc' = "install"
    /\ xml' = NoSdnList
    /\ sdnEntries' = 0
    /\ entryIdx' = 0
    /\ idIdx' = 0
    /\ addresses' = <<>>
    /\ processedEntries' = 0
    /\ totalDigitalCurrencyIds' = 0
    /\ foundAddresses' = 0
    /\ exitStatus' = -1
    /\ writes' = 0
    /\ fileAtStart' = file
    /\ raised' = {}
    /\ fatal' = "none"
    /\ file' = file
    /\ fetches' = NoFetches

NextP2 ==
    \/ InstallP2
    \/ FetchP2
    \/ ParseP2
    \/ NextEntryP2
    \/ ProcessIdP2
    \/ EndEntryP2
    \/ ReturnAddressesP2
    \/ MkdirP2
    \/ WriteFileP2
    \/ EndSuccessP2
    \/ ExitFailureP2
    \/ NextRunP2

SpecP2 == InitP2 /\ [][NextP2]_vars

(***************************************************************************)
(* What the properties speak of: the document as the source serves it.     *)
(***************************************************************************)
\* the entities of the document of this run
DocEntities == 1..Len(xml.entries)
RawIds(k) == EntityShapes[xml.entries[k]].ids
\* the entities whose processing raised
RaisedEntities == { r[1] : r \in raised }

\* per shape and identifier: the lower-cased, trimmed raw idNumber ("" when
\* the value is absent)
NormalizedValue ==
    [s \in 1..Len(EntityShapes) |->
        [n \in 1..Len(EntityShapes[s].ids) |->
            IF EntityShapes[s].ids[n].idNumber.present
            THEN ToLowerCase(Trim(EntityShapes[s].ids[n].idNumber.text))
            ELSE ""]]

\* per shape and identifier: the type-label contains "Digital Currency"
HasDigitalLabel ==
    [s \in 1..Len(EntityShapes) |->
        [n \in 1..Len(EntityShapes[s].ids) |->
            /\ EntityShapes[s].ids[n].idType.present
            /\ Includes(EntityShapes[s].ids[n].idType.text, DigitalCurrency)]]

\* per shape and identifier: the type-label contains "digital currency",
\* whatever the case of its letters
HasDigitalLabelAnyCase ==
    [s \in 1..Len(EntityShapes) |->
        [n \in 1..Len(EntityShapes[s].ids) |->
            /\ EntityShapes[s].ids[n].idType.present
            /\ Includes(ToLowerCase(EntityShapes[s].ids[n].idType.text),
                        ToLowerCase(DigitalCurrency))]]

\* the type-labels of the documents that contain "Digital Currency"
DigitalLabels ==
    { l \in UNION { { EntityShapes[s].ids[n].idType.text :
                        n \in 1..Len(EntityShapes[s].ids) } :
                    s \in 1..Len(EntityShapes) } :
        Includes(l, DigitalCurrency) }

\* the extraction loop has visited every entity and returned
LoopDone == pc \in {"mkdir", "write", "resolved"} \/ (pc \in {"fatal", "exited"} /\ fatal \in {"none", "mkdir", "write"})

\* per shape: the keys of its identifiers with a "Digital Currency" label and
\* a value that is a string of at least 10 characters
ValidKeys ==
    [s \in 1..Len(EntityShapes) |->
        { NormalizedValue[s][n] : n \in
            { m \in 1..Len(EntityShapes[s].ids) :
                /\ HasDigitalLabel[s][m]
                /\ EntityShapes[s].ids[m].idNumber.present
                /\ ~IsDigits(Trim(EntityShapes[s].ids[m].idNumber.text))
                /\ Len(NormalizedValue[s][m]) >= MinAddressLength } }]

(***************************************************************************)
(* C1.  The output file is written at most once in a run, and only after   *)
(* the fetch, the parse and the loop over every entity have completed; if  *)
(* the fetch or the parse raises, the file is not written and keeps the    *)
(* content it had before the run.                                          *)
(***************************************************************************)
C1_WriteOnceAfterExtraction ==
    /\ writes <= 1
    /\ writes = 1 =>
          /\ fatal \notin {"fetch", "parse", "mkdir"}
          /\ xml.wellFormed
          /\ pc \in {"resolved", "fatal", "exited"}
          /\ entryIdx = Len(SdnEntries(xml))
          /\ processedEntries = Len(SdnEntries(xml))
    /\ file # fileAtStart => writes = 1
    /\ fatal \in {"fetch", "parse"} => writes = 0 /\ file = fileAtStart

\* a second run fails in the fetch or the parse and leaves the snapshot of
\* the first run, which holds addresses, as it was
C1_Witness ==
    /\ pc = "exited"
    /\ fatal \in {"fetch", "parse"}
    /\ fileAtStart.kind = "snapshot"
    /\ fileAtStart.totalAddresses > 0
    /\ file = fileAtStart

(***************************************************************************)
(* C3.  A document whose parse result lacks the entity list (no sdnList,   *)
(* or an sdnList without sdnEntry) is fatal: the process exits with a      *)
(* non-zero status and no output file is written.                          *)
(***************************************************************************)
C3_MissingEntityListIsFatal ==
    (/\ pc = "exited"
     /\ fatal # "fetch"
     /\ xml.wellFormed
     /\ Len(SdnEntries(xml)) = 0)
    => (exitStatus = 1 /\ writes = 0)

(***************************************************************************)
(* C4.  An entity whose processing raises does not abort the loop: every   *)
(* later entity is visited, processedEntries ends at the number of         *)
(* entities of the document, and every valid address of the entities that  *)
(* did not raise is a key of the output.                                   *)
(***************************************************************************)
C4_RaisingEntityDoesNotAbort ==
    /\ \A r \in raised : r[1] <= entryIdx /\ processedEntries = entryIdx
    /\ LoopDone =>
          /\ processedEntries = Len(xml.entries)
          /\ \A k \in DocEntities \ RaisedEntities :
                ValidKeys[xml.entries[k]] \subseteq DOMAIN addresses

\* the first entity raised, and the address of the second one is in the output
C4_Witness ==
    /\ pc = "mkdir"
    /\ 1 \in RaisedEntities
    /\ 2 \notin RaisedEntities
    /\ \E key \in DOMAIN addresses : addresses[key].uid = 2

\* per shape and identifier: a "Digital Currency" label and a value that is a
\* string of at least 10 characters
ValidAt ==
    [s \in 1..Len(EntityShapes) |->
        [n \in 1..Len(EntityShapes[s].ids) |->
            /\ HasDigitalLabel[s][n]
            /\ EntityShapes[s].ids[n].idNumber.present
            /\ ~IsDigits(Trim(EntityShapes[s].ids[n].idNumber.text))
            /\ Len(NormalizedValue[s][n]) >= MinAddressLength]]

(***************************************************************************)
(* C6 (as claimed).  An entity whose processing raises contributes no      *)
(* address to the output, neither from the identifiers before the failing  *)
(* one nor from those after it.                                            *)
(***************************************************************************)
C6_RaisingEntityContributesNothing ==
    \A key \in DOMAIN addresses : addresses[key].uid \notin RaisedEntities

(***************************************************************************)
(* C6 (amended).  When the processing of an entity raises at an            *)
(* identifier, the identifiers after it contribute nothing, the addresses  *)
(* accepted from the identifiers before it stay keys of the output, and    *)
(* the loop goes on with the next entity.                                  *)
(***************************************************************************)
C6_RaisingEntityKeepsEarlierAddresses ==
    /\ \A r \in raised :
          LET s == xml.entries[r[1]]
          IN /\ \A key \in DOMAIN addresses :
                   addresses[key].uid = r[1] =>
                      \E m \in 1..(r[2] - 1) : ValidAt[s][m] /\ key = NormalizedValue[s][m]
             /\ \A m \in 1..(r[2] - 1) :
                   ValidAt[s][m] => NormalizedValue[s][m] \in DOMAIN addresses
             /\ (pc = "loop" /\ entryIdx = r[1]) => idIdx = r[2]
    /\ LoopDone => processedEntries = Len(xml.entries)

\* the first entity raised at its second identifier and keeps the address of
\* its first one; the second entity was processed after it
C6_Witness ==
    /\ pc = "mkdir"
    /\ <<1, 2>> \in raised
    /\ \E key \in DOMAIN addresses : addresses[key].uid = 1
    /\ \E key \in DOMAIN addresses : addresses[key].uid = 2

(***************************************************************************)
(* C7.  Every key of the addresses mapping is the lower-cased, trimmed raw *)
(* idNumber of an identifier of the document, has at least 10 characters   *)
(* and is not empty.                                                       *)
(***************************************************************************)
C7_KeysAreNormalized ==
    /\ \A key \in DOMAIN addresses :
          /\ key # ""
          /\ Len(key) >= MinAddressLength
          /\ \E k \in 1..entryIdx : \E n \in 1..Len(RawIds(k)) :
                /\ RawIds(k)[n].idNumber.present
                /\ key = NormalizedValue[xml.entries[k]][n]
    /\ pc = "resolved" => file.addresses = addresses

\* the written file holds the key of the raw value " 0xABC1234567 "
C7_Witness ==
    /\ pc = "resolved"
    /\ \E k \in DocEntities : \E n \in 1..Len(RawIds(k)) :
          RawIds(k)[n].idNumber = Text(" 0xABC1234567 ")
    /\ "0xabc1234567" \in DOMAIN file.addresses

(***************************************************************************)
(* C8.  An identifier is classified as a candidate (and counted in         *)
(* totalDigitalCurrencyIds) if and only if its type-label contains         *)
(* "digital currency", whatever the case of its letters.                   *)
(***************************************************************************)
C8_CandidateIffLabelAnyCase ==
    [][(pc = "ids" /\ idIdx' = idIdx + 1) =>
          ((totalDigitalCurrencyIds' = totalDigitalCurrencyIds + 1)
             <=> HasDigitalLabelAnyCase[xml.entries[entryIdx]][idIdx'])]_vars

(***************************************************************************)
(* C9.  Every identifier of the document with a "Digital Currency" label   *)
(* and a value of at least 10 characters has an entry in the output, keyed *)
(* by its lower-cased value, whatever else the document contains.          *)
(***************************************************************************)
C9_EveryDigitalIdYieldsEntry ==
    LoopDone =>
        \A k \in DocEntities : \A n \in 1..Len(RawIds(k)) :
            (/\ HasDigitalLabel[xml.entries[k]][n]
             /\ Len(NormalizedValue[xml.entries[k]][n]) >= MinAddressLength)
            => NormalizedValue[xml.entries[k]][n] \in DOMAIN addresses

(***************************************************************************)
(* C10.  An identifier whose type-label does not contain "Digital          *)
(* Currency" (such as "Passport") never produces a key or a record: every  *)
(* record's type is a digital-currency label, and every key is the value   *)
(* of an identifier with that label in the record's entity.                *)
(***************************************************************************)
C10_OnlyDigitalCurrencyIds ==
    /\ \A key \in DOMAIN addresses :
          /\ addresses[key].type \in DigitalLabels
          /\ addresses[key].type # LabelPassport
          /\ addresses[key].uid \in 1..entryIdx
          /\ \E n \in 1..Len(RawIds(addresses[key].uid)) :
                LET s == xml.entries[addresses[key].uid]
                IN /\ HasDigitalLabel[s][n]
                   /\ EntityShapes[s].ids[n].idType.text = addresses[key].type
                   /\ key = NormalizedValue[s][n]
    /\ \A k \in 1..entryIdx : \A n \in 1..Len(RawIds(k)) :
          LET s == xml.entries[k]
          IN (~HasDigitalLabel[s][n] /\ NormalizedValue[s][n] \in DOMAIN addresses)
             => \E k2 \in 1..entryIdx : \E n2 \in 1..Len(RawIds(k2)) :
                   /\ HasDigitalLabel[xml.entries[k2]][n2]
                   /\ NormalizedValue[xml.entries[k2]][n2] = NormalizedValue[s][n]

\* an entity with a Passport identifier and an ETH identifier was processed:
\* the ETH value is a key, the Passport value is not
C10_Witness ==
    /\ pc = "mkdir"
    /\ \E k \in DocEntities : \E n \in 1..Len(RawIds(k)) :
          /\ RawIds(k)[n] = IdPassport
          /\ NormalizedValue[xml.entries[k]][n] \notin DOMAIN addresses
    /\ "0xabc1234567" \in DOMAIN addresses

(***************************************************************************)
(* C5.  In the second revision a malformed entity (a digital-currency      *)
(* identifier without idNumber) does not abort the run: the failure is     *)
(* caught, the next entity is processed, and the addresses of the other    *)
(* entities are written.                                                   *)
(***************************************************************************)
C5_MalformedEntityDoesNotAbortB ==
    (pc = "exited" /\ raised # {} /\ fatal \notin {"mkdir", "write"}) =>
        /\ exitStatus = 0
        /\ \A k \in DocEntities \ RaisedEntities :
              \A n \in 1..Len(ExtractedB[xml.entries[k]]) :
                 ExtractedB[xml.entries[k]][n].outcome = "accept"
                 => ExtractedB[xml.entries[k]][n].address \in DOMAIN file.addresses

Accepted(k, n) ==
    /\ ValidAt[xml.entries[k]][n]
    /\ \A r \in raised : r[1] = k => n < r[2]

Occurrences(key) ==
    { o \in UNION { { <<k, n>> : n \in 1..Len(RawIds(k)) } : k \in DocEntities } :
        /\ Accepted(o[1], o[2])
        /\ NormalizedValue[xml.entries[o[1]]][o[2]] = key }

\* o comes before p in document order, or is p
Before(o, p) == o[1] < p[1] \/ (o[1] = p[1] /\ o[2] <= p[2])

LastOccurrence(key) ==
    CHOOSE o \in Occurrences(key) : \A p \in Occurrences(key) : Before(p, o)

AcceptedKeys ==
    { NormalizedValue[xml.entries[k]][n] : <<k, n>> \in
        { o \in UNION { { <<j, m>> : m \in 1..Len(RawIds(j)) } : j \in DocEntities } :
            Accepted(o[1], o[2]) } }

(***************************************************************************)
(* C11.  Entities are processed in document order, and when the loop is    *)
(* done the output holds, for every accepted address, exactly one record:  *)
(* the entity, program, type and uid of the last accepted occurrence of    *)
(* the address in document order (last write wins).                        *)
(***************************************************************************)
C11_LastWriteWins ==
    /\ \A key \in DOMAIN addresses : addresses[key].uid \in 1..entryIdx
    /\ LoopDone =>
          /\ DOMAIN addresses = AcceptedKeys
          /\ \A key \in DOMAIN addresses :
                LET last == LastOccurrence(key)
                IN addresses[key] =
                      [Extracted[xml.entries[last[1]]][last[2]].record
                          EXCEPT !.uid = last[1]]

\* Ivan Petrov and then Lazarus Group present the same address: the record
\* is the one of Lazarus Group
C11_Witness ==
    /\ pc = "mkdir"
    /\ xml.entries = <<1, 2>>
    /\ "0xabc1234567" \in DOMAIN addresses
    /\ addresses["0xabc1234567"].uid = 2
    /\ addresses["0xabc1234567"].entity = "Lazarus Group"
    /\ addresses["0xabc1234567"].type = LabelXBT

(***************************************************************************)
(* The accepted occurrences of an address under part_001: a "Digital       *)
(* Currency" label and a value of at least 10 characters (a value of       *)
(* digits is a string there).                                              *)
(***************************************************************************)
AcceptedP1(k, n) ==
    /\ HasDigitalLabel[xml.entries[k]][n]
    /\ Len(NormalizedValue[xml.entries[k]][n]) >= MinAddressLength

AllIds == UNION { { <<k, n>> : n \in 1..Len(RawIds(k)) } : k \in DocEntities }

OccurrencesP1(key) ==
    { o \in AllIds :
        /\ AcceptedP1(o[1], o[2])
        /\ NormalizedValue[xml.entries[o[1]]][o[2]] = key }

\* the place of an occurrence among the occurrences of its address
Rank(o, occurrences) == Cardinality({ p \in occurrences : Before(p, o) })

(***************************************************************************)
(* C12.  Under part_001, when the loop is done, the `entries` list of      *)
(* every address holds exactly one element per accepted occurrence of the  *)
(* address, in document order: the i-th element is the entity, program,    *)
(* type and uid of the i-th occurrence, and none is overwritten or         *)
(* dropped.                                                                *)
(***************************************************************************)
C12_EntriesKeepEveryOccurrenceP1 ==
    LoopDone =>
        /\ DOMAIN addresses =
              { NormalizedValue[xml.entries[o[1]]][o[2]] :
                    o \in { a \in AllIds : AcceptedP1(a[1], a[2]) } }
        /\ \A key \in DOMAIN addresses :
              LET occ == OccurrencesP1(key)
              IN /\ Len(addresses[key].entries) = Cardinality(occ)
                 /\ \A o \in occ :
                       addresses[key].entries[Rank(o, occ)] =
                          [ExtractedP1[xml.entries[o[1]]][o[2]].details
                              EXCEPT !.uid = o[1]]

\* Ivan Petrov and then Lazarus Group present the same address: `entries`
\* has the two of them, in this order
C12_Witness ==
    /\ pc = "mkdir"
    /\ xml.entries = <<1, 2>>
    /\ "0xabc1234567" \in DOMAIN addresses
    /\ Len(addresses["0xabc1234567"].entries) = 2
    /\ addresses["0xabc1234567"].entries[1].entity = "Ivan Petrov"
    /\ addresses["0xabc1234567"].entries[2].entity = "Lazarus Group"

(***************************************************************************)
(* The mapping the script extracts from a document, as a function of the   *)
(* document alone: the identifiers of each entity in order up to the first *)
(* that raises, the entities in order.                                     *)
(***************************************************************************)
RECURSIVE ExtractIds(_, _, _, _)
ExtractIds(map, s, k, n) ==
    IF n > Len(Extracted[s]) \/ Raises(Extracted[s][n].outcome) THEN map
    ELSE ExtractIds(IF Extracted[s][n].outcome = "accept"
                    THEN Put(map, Extracted[s][n].address,
                             [Extracted[s][n].record EXCEPT !.uid = k])
                    ELSE map,
                    s, k, n + 1)

RECURSIVE ExtractEntities(_, _, _)
ExtractEntities(map, entries, k) ==
    IF k > Len(entries) THEN map
    ELSE ExtractEntities(ExtractIds(map, entries[k], k, 1), entries, k + 1)

ExtractAll(doc) == ExtractEntities(<<>>, SdnEntries(doc), 1)

\* this run has written its snapshot
WrittenInThisRun == file.kind = "snapshot" /\ file.lastUpdated = run

(***************************************************************************)
(* C13.  Idempotence.  The snapshot a run writes is a function of the      *)
(* document of that run alone: its addresses are the extraction of the     *)
(* document and totalAddresses their number, whatever an earlier run left  *)
(* behind.  So a run on the document of the run before writes the same     *)
(* addresses and the same totalAddresses; only lastUpdated differs.        *)
(***************************************************************************)
C13_RunDependsOnDocumentOnly ==
    WrittenInThisRun =>
        /\ file.addresses = ExtractAll(xml)
        /\ file.totalAddresses = Cardinality(DOMAIN ExtractAll(xml))
        /\ (fileAtStart.kind = "snapshot" /\ fileAtStart.addresses = ExtractAll(xml)) =>
              /\ file.addresses = fileAtStart.addresses
              /\ file.totalAddresses = fileAtStart.totalAddresses

\* the second run has written the addresses the first run wrote; only
\* lastUpdated differs
C13_Witness ==
    /\ pc = "exited"
    /\ exitStatus = 0
    /\ run = 2
    /\ fileAtStart.kind = "snapshot"
    /\ fileAtStart.lastUpdated = 1
    /\ file.lastUpdated = 2
    /\ Cardinality(DOMAIN file.addresses) >= 2
    /\ file.addresses = fileAtStart.addresses
    /\ file.totalAddresses = fileAtStart.totalAddresses

\* the document of this run has been fetched and it has no entity
ZeroEntitiesFetched ==
    /\ pc # "fetch"
    /\ fatal # "fetch"
    /\ xml.wellFormed
    /\ Len(SdnEntries(xml)) = 0

(***************************************************************************)
(* C14.  For a document with zero entities the extraction does not fail    *)
(* and yields the empty mapping; unless mkdir or writeFile fail the run    *)
(* exits with status 0, and the snapshot it writes has an empty            *)
(* `addresses` and totalAddresses 0.                                       *)
(***************************************************************************)
C14_ZeroEntitiesGiveEmptySnapshot ==
    ZeroEntitiesFetched =>
        /\ fatal \in {"none", "mkdir", "write"}
        /\ addresses = <<>>
        /\ WrittenInThisRun => file.addresses = <<>> /\ file.totalAddresses = 0
        /\ (pc = "exited" /\ fatal = "none") => exitStatus = 0 /\ WrittenInThisRun

\* a run on an sdnList without entries replaces a snapshot that held
\* addresses by the empty one
C14_Witness ==
    /\ pc = "exited"
    /\ exitStatus = 0
    /\ xml = SdnList(<<>>)
    /\ fileAtStart.totalAddresses > 0
    /\ WrittenInThisRun
    /\ file.addresses = <<>>
    /\ file.totalAddresses = 0

\* the number of elements of the `entries` lists of a mapping of part_001
RECURSIVE EntryCount(_)
EntryCount(addrs) ==
    IF DOMAIN addrs = {} THEN 0
    ELSE LET key == CHOOSE k \in DOMAIN addrs : TRUE
         IN Len(addrs[key].entries) + EntryCount([k \in DOMAIN addrs \ {key} |-> addrs[k]])

(***************************************************************************)
(* C15.  In every written snapshot metadata.totalAddresses is the number   *)
(* of keys of the `addresses` written with it; under part_001 that is the  *)
(* number of unique addresses, while totalEntries is the number of         *)
(* elements of the `entries` lists.                                        *)
(***************************************************************************)
C15_TotalAddressesIsKeyCountP1 ==
    file.kind = "snapshot" =>
        /\ file.totalAddresses = Cardinality(DOMAIN file.addresses)
        /\ file.totalEntries = EntryCount(file.addresses)
        /\ file.totalAddresses <= file.totalEntries

\* one address presented by two entities: one key, two entries
C15_Witness ==
    /\ file.kind = "snapshot"
    /\ file.lastUpdated = run
    /\ xml.entries = <<1, 2>>
    /\ file.totalAddresses = 1
    /\ file.totalEntries = 2
    /\ DOMAIN file.addresses = {"0xabc1234567"}

\* per shape: the program labels of the entity as the document gives them,
\* trimmed
ProgramLabels ==
    [s \in 1..Len(EntityShapes) |->
        [k \in 1..Len(EntityShapes[s].programs) |-> Trim(EntityShapes[s].programs[k].text)]]

(***************************************************************************)
(* C16.  A single program label gives the record the label itself as       *)
(* `program`, as a list of one label does, and never raises; several       *)
(* labels give the labels joined with ", " in document order (and no       *)
(* label gives "").                                                        *)
(***************************************************************************)
C16_ProgramScalarAsList ==
    /\ \A r \in raised : Step(r[1], r[2]).outcome # "raiseProgram"
    /\ \A key \in DOMAIN addresses :
          LET labels == ProgramLabels[xml.entries[addresses[key].uid]]
              program == addresses[key].program
          IN /\ Len(labels) = 0 => program = ""
             /\ Len(labels) = 1 => program = labels[1]
             /\ Len(labels) = 2 => program = labels[1] \o ", " \o labels[2]
             /\ Len(labels) <= 2

\* Lazarus Group, with the one label DPRK3, after a run that wrote Ivan
\* Petrov, with the labels SDGT and CYBER2
C16_Witness ==
    /\ pc = "mkdir"
    /\ \E key \in DOMAIN addresses :
          /\ addresses[key].entity = "Lazarus Group"
          /\ addresses[key].program = "DPRK3"
    /\ fileAtStart.kind = "snapshot"
    /\ \E key \in DOMAIN fileAtStart.addresses :
          /\ fileAtStart.addresses[key].entity = "Ivan Petrov"
          /\ fileAtStart.addresses[key].program = "SDGT, CYBER2"

\* fetch, parse, extraction and the write of this run have all completed
RunCompleted ==
    /\ fatal = "none"
    /\ xml.wellFormed
    /\ entryIdx = Len(SdnEntries(xml))
    /\ processedEntries = Len(SdnEntries(xml))
    /\ writes = 1
    /\ WrittenInThisRun

C18_FullFileReplace ==
    WrittenInThisRun =>
        /\ DOMAIN file.addresses = AcceptedKeys
        /\ \A key \in DOMAIN fileAtStart.addresses :
              key \notin AcceptedKeys => key \notin DOMAIN file.addresses

\* the second run has written a snapshot that holds addresses and lacks an
\* address of the snapshot of the first run
C18_Witness ==
    /\ run = 2
    /\ fileAtStart.kind = "snapshot"
    /\ WrittenInThisRun
    /\ DOMAIN file.addresses # {}
    /\ \E key \in DOMAIN fileAtStart.addresses : key \notin DOMAIN file.addresses

\* per shape and identifier: a candidate (a "Digital Currency" label) whose
\* value is absent, empty or shorter than 10 characters
InvalidCandidate ==
    [s \in 1..Len(EntityShapes) |->
        [n \in 1..Len(EntityShapes[s].ids) |->
            /\ HasDigitalLabel[s][n]
            /\ Len(NormalizedValue[s][n]) < MinAddressLength]]

(***************************************************************************)
(* C19.  A candidate identifier whose value is absent, empty or shorter    *)
(* than 10 characters is skipped, and it alone: the step that handles it   *)
(* counts it in totalDigitalCurrencyIds, not in foundAddresses, leaves the *)
(* output mapping as it is, and goes on with the next identifier of the    *)
(* same entity.                                                            *)
(***************************************************************************)
C19_InvalidCandidateSkippedAlone ==
    [][(/\ pc = "ids"
        /\ idIdx < Len(RawIds(entryIdx))
        /\ InvalidCandidate[xml.entries[entryIdx]][idIdx + 1])
       => (/\ pc' = "ids"
           /\ entryIdx' = entryIdx
           /\ idIdx' = idIdx + 1
           /\ totalDigitalCurrencyIds' = totalDigitalCurrencyIds + 1
           /\ foundAddresses' = foundAddresses
           /\ addresses' = addresses
           /\ raised' = raised)]_vars

(***************************************************************************)
(* C20.  Under part_002 (lines 159-299) an identifier with a digital-      *)
(* currency label and no value, or an empty one, produces no entry: no     *)
(* written snapshot has the key "" or "undefined", and every key is the    *)
(* lower-cased value of an identifier of the document.                     *)
(***************************************************************************)
C20_NoKeyWithoutValueP2 ==
    (file.kind = "snapshot" /\ file.lastUpdated = run) =>
        \A key \in DOMAIN file.addresses :
            /\ key \notin {"", "undefined"}
            /\ \E o \in AllIds :
                  /\ RawIds(o[1])[o[2]].idNumber.present
                  /\ NormalizedValue[xml.entries[o[1]]][o[2]] = key

\* per shape: the mapping a document holding only an entity of that shape
\* gives
SingleEntityOutput ==
    [s \in 1..Len(EntityShapes) |-> ExtractIds(<<>>, s, 1, 1)]

(***************************************************************************)
(* C21.  A document with exactly one sdnEntry, and an entity with exactly  *)
(* one identifier, are processed as one-element sequences: the parse of a  *)
(* well-formed document is never fatal, a lone identifier never raises,    *)
(* the one-entity document gives the mapping of its entity, and in a       *)
(* longer list every entity gives the same keys and, where a later entity  *)
(* has not overwritten them, the same records.                             *)
(***************************************************************************)
C21_SingleElementIsSequence ==
    /\ (xml.wellFormed /\ pc \in {"fatal", "exited"}) => fatal # "parse"
    /\ \A r \in raised : Extracted[xml.entries[r[1]]][r[2]].outcome # "raiseIds"
    /\ LoopDone =>
          \A k \in DocEntities \ RaisedEntities :
             (Len(RawIds(k)) = 1 /\ ValidAt[xml.entries[k]][1])
             => NormalizedValue[xml.entries[k]][1] \in DOMAIN addresses
    /\ (LoopDone /\ Len(xml.entries) = 1) =>
          addresses = SingleEntityOutput[xml.entries[1]]
    /\ LoopDone =>
          \A k \in DocEntities :
             LET single == SingleEntityOutput[xml.entries[k]]
             IN \A key \in DOMAIN single :
                   /\ key \in DOMAIN addresses
                   /\ addresses[key].uid = k =>
                         addresses[key] = [single[key] EXCEPT !.uid = k]

\* a document with one sdnEntry whose idList has one id was processed, and
\* the address of that identifier is in the written file
C21_Witness ==
    /\ pc = "resolved"
    /\ xml.entries = <<9>>
    /\ Len(RawIds(1)) = 1
    /\ raised = {}
    /\ DOMAIN file.addresses = {NormalizedValue[9][1]}
    /\ file.addresses[NormalizedValue[9][1]].entity = "Satoshi"

(***************************************************************************)
(* C22.  Every accepted record carries the fields entity, program, date,   *)
(* reason and type.                                                        *)
(***************************************************************************)
C22_RecordHasDateAndReason ==
    \A key \in DOMAIN addresses :
        {"entity", "program", "date", "reason", "type"} \subseteq DOMAIN addresses[key]

(***************************************************************************)
(* C23.  The program of a record is never the empty string: an entity      *)
(* without program labels gives the record the program "Not specified".    *)
(***************************************************************************)
C23_ProgramNeverEmpty ==
    \A key \in DOMAIN addresses :
        /\ addresses[key].program # ""
        /\ Len(ProgramLabels[xml.entries[addresses[key].uid]]) = 0
              => addresses[key].program = "Not specified"

\* per shape: the trimmed text of the firstName and lastName elements
RawNames ==
    [s \in 1..Len(EntityShapes) |->
        [first |-> Trim(EntityShapes[s].firstName.text),
         last |-> Trim(EntityShapes[s].lastName.text)]]

(***************************************************************************)
(* C24.  The entity of a record is the lastName when only lastName is      *)
(* present, the firstName when only firstName is present, and "Unknown     *)
(* Entity" exactly when both are absent; it is never empty and has no      *)
(* leading or trailing whitespace.                                         *)
(***************************************************************************)
C24_DisplayNameFromPresentName ==
    \A key \in DOMAIN addresses :
        LET s == xml.entries[addresses[key].uid]
            first == EntityShapes[s].firstName.present
            last == EntityShapes[s].lastName.present
            entity == addresses[key].entity
        IN /\ (last /\ ~first) => entity = RawNames[s].last
           /\ (first /\ ~last) => entity = RawNames[s].first
           /\ entity = "Unknown Entity" <=> (~first /\ ~last)
           /\ entity # ""
           /\ entity = Trim(entity)

\* the accepted occurrences of the document, and those among them that
\* found their key already set by an earlier accepted occurrence
AcceptedOccurrences == { o \in AllIds : Accepted(o[1], o[2]) }

Overwriting ==
    { o \in AcceptedOccurrences :
        \E p \in AcceptedOccurrences :
            /\ p # o
            /\ Before(p, o)
            /\ NormalizedValue[xml.entries[p[1]]][p[2]] =
                  NormalizedValue[xml.entries[o[1]]][o[2]] }

(***************************************************************************)
(* C25.  In the loop and at its end the number of keys is at most          *)
(* foundAddresses, which is at most totalDigitalCurrencyIds, and           *)
(* processedEntries is at most the number of entities; when the loop is    *)
(* done processedEntries is the number of entities, and foundAddresses     *)
(* minus the number of keys is the number of accepted occurrences that     *)
(* overwrote an existing key.                                              *)
(***************************************************************************)
C25_CountersAccountForKeys ==
    /\ Cardinality(DOMAIN addresses) <= foundAddresses
    /\ foundAddresses <= totalDigitalCurrencyIds
    /\ processedEntries <= Len(xml.entries)
    /\ LoopDone =>
          /\ processedEntries = Len(xml.entries)
          /\ foundAddresses - Cardinality(DOMAIN addresses) = Cardinality(Overwriting)

\* per shape: the names a record of an entity of that shape can carry, and
\* its program labels joined with ", "
NamesOfShape ==
    [s \in 1..Len(EntityShapes) |->
        {RawNames[s].first \o " " \o RawNames[s].last, RawNames[s].first,
         RawNames[s].last, "Unknown Entity"}]

ProgramsOfShape ==
    [s \in 1..Len(EntityShapes) |-> Join(ProgramLabels[s], ", ")]

(***************************************************************************)
(* C26.  Every record of the output is internally consistent: its entity,  *)
(* program and uid come from one and the same entity of the document, and  *)
(* its type is the label of an identifier of that entity whose lower-cased *)
(* value is the key of the record.                                         *)
(***************************************************************************)
C26_RecordFromOneEntity ==
    \A key \in DOMAIN addresses :
        /\ addresses[key].uid \in 1..entryIdx
        /\ LET s == xml.entries[addresses[key].uid]
           IN /\ addresses[key].entity \in NamesOfShape[s]
              /\ addresses[key].program = ProgramsOfShape[s]
              /\ \E n \in 1..Len(EntityShapes[s].ids) :
                    /\ EntityShapes[s].ids[n].idType.present
                    /\ addresses[key].type = EntityShapes[s].ids[n].idType.text
                    /\ EntityShapes[s].ids[n].idNumber.present
                    /\ key = NormalizedValue[s][n]

\* Ivan Petrov and the entity without names were processed: each has its
\* record, with its own name, programs and the label of its own identifier
C26_Witness ==
    /\ pc = "mkdir"
    /\ xml.entries = <<1, 3>>
    /\ addresses["0xabc1234567"] =
          [entity |-> "Ivan Petrov", program |-> "SDGT, CYBER2", type |-> LabelETH, uid |-> 1]
    /\ \E key \in DOMAIN addresses :
          /\ addresses[key].uid = 2
          /\ addresses[key].entity = "Unknown Entity"
          /\ addresses[key].program = ""

(***************************************************************************)
(* C27.  Under part_001, in every written snapshot each address has a      *)
(* non-empty `entries` list, metadata.totalEntries is the sum of the       *)
(* lengths of the `entries` lists (so at least totalAddresses), and the    *)
(* `type` of an address is the label of its first accepted occurrence,     *)
(* also when later entries carry another label.                            *)
(***************************************************************************)
C27_SnapshotEntriesAndTypeP1 ==
    file.kind = "snapshot" =>
        /\ \A key \in DOMAIN file.addresses :
              /\ Len(file.addresses[key].entries) >= 1
              /\ file.addresses[key].type = file.addresses[key].entries[1].type
        /\ file.totalEntries = EntryCount(file.addresses)
        /\ file.totalEntries >= file.totalAddresses
        /\ WrittenInThisRun =>
              \A key \in DOMAIN file.addresses :
                 \A o \in OccurrencesP1(key) :
                    Rank(o, OccurrencesP1(key)) = 1 =>
                       file.addresses[key].type = RawIds(o[1])[o[2]].idType.text

\* Ivan Petrov presents the address with the ETH label and Lazarus Group
\* with the XBT label: the written address has the type of the first
\* occurrence and two entries, the second with the other label
C27_Witness ==
    /\ WrittenInThisRun
    /\ xml.entries = <<1, 2>>
    /\ file.totalEntries = 2
    /\ file.addresses["0xabc1234567"].type = LabelETH
    /\ file.addresses["0xabc1234567"].entries[1].type = LabelETH
    /\ file.addresses["0xabc1234567"].entries[2].type = LabelXBT

(***************************************************************************)
(* C28.  Under part_000 the two fetches run concurrently and, whatever     *)
(* their outcomes and the order in which they settle, no address found by  *)
(* a fetch is ever added: the mapping is KNOWN_ADDRESSES from the start of *)
(* the fetches on, no fetch outcome ends the run, and every run whose      *)
(* mkdir and writeFile succeed writes the file with exactly                *)
(* KNOWN_ADDRESSES.                                                        *)
(***************************************************************************)
C28_WritesExactlyKnownAddressesP0 ==
    /\ fetches.press.result = <<>> /\ fetches.sdn.result = <<>>
    /\ pc \notin {"fetch"} => addresses = KNOWN_ADDRESSES
    /\ pc \in {"fatal", "exited"} =>
          /\ fatal \in {"none", "mkdir", "write"}
          /\ fetches.press.state \in {"fetched", "failed"}
          /\ fetches.sdn.state \in {"fetched", "failed"}
    /\ file.kind = "snapshot" =>
          /\ file.addresses = KNOWN_ADDRESSES
          /\ file.totalAddresses = Cardinality(DOMAIN KNOWN_ADDRESSES)
    /\ (pc \in {"resolved", "exited"} /\ fatal = "none") =>
          /\ writes = 1
          /\ WrittenInThisRun

\* the SDN list was fetched and held digital-currency addresses, the press
\* page failed, and the run wrote the file with KNOWN_ADDRESSES alone
C28_Witness ==
    /\ pc = "exited"
    /\ exitStatus = 0
    /\ fetches.sdn.state = "fetched"
    /\ fetches.sdn.found > 0
    /\ fetches.press.state = "failed"
    /\ WrittenInThisRun
    /\ file.addresses = KNOWN_ADDRESSES
====
